---- MODULE Spec2Model ----
(***************************************************************************)
(* TinyShell: job table, SIGCHLD reaper, pipeline executor, the builtins   *)
(* jobs, fg, bg, cd and exit, and the command-line parser, modelled from   *)
(* src/src/pipeline.c, src/src/builtin.c, src/unnamed/part_002 (parser.c)  *)
(* and src/unnamed/part_005 (main.c).                                      *)
(*                                                                         *)
(* The main line of the shell is a program counter (pc) over the places    *)
(* where SIGCHLD is unblocked; every stretch of code that runs with        *)
(* SIGCHLD blocked is one action.  Child processes change state through    *)
(* the environment actions ChildExit, ChildStop and ChildCont.  While      *)
(* SIGCHLD is unblocked the handler collects the change in the same step;  *)
(* while it is blocked the status stays pending, and the action Reap       *)
(* collects it once the signal is unblocked again.                         *)
(***************************************************************************)
EXTENDS Integers, Sequences, FiniteSets, TLC

(* ---- bounds of the model ---------------------------------------------- *)
\* MAX_JOBS and MAX_PROCS are 64 in the source (pipeline.c:188-189); the
\* model runs the same code with a smaller table and a shorter pipeline.
MAX_JOBS == 2
MAX_PROCS == 2
\* pids the OS hands out (a pid is reused once it is reaped and unreferenced)
MaxPid == 3
\* cap on next_seq: no pipeline is launched once next_seq exceeds it
MaxSeq == 3
\* longest input line the parser is given
MaxLine == 4
\* size of the tokenizer's word buffer: 4096 in the source (parser.c:27);
\* the model runs the same loop with a buffer that a line of MaxLine
\* characters can fill
TOKEN_BUFFER_SIZE == 4

(* ---- program constants ------------------------------------------------ *)
JOB_UNUSED == 0
JOB_RUNNING == 1
JOB_STOPPED == 2
JOB_DONE == 3

\* the shell's own process group (getpgrp()); child pids are 1..MaxPid
ShellPgid == 100

\* raw wait statuses as waitpid reports them
StStopped == 5247      \* 0x147f: stopped by SIGTSTP (20)
StContinued == 65535   \* 0xffff
\* exit(3), killed by SIGKILL (9)
ChildStatuses == {768, 9}

WTERMSIG(s) == s % 128
WIFEXITED(s) == WTERMSIG(s) = 0
WEXITSTATUS(s) == (s \div 256) % 256
WIFSIGNALED(s) == WTERMSIG(s) >= 1 /\ WTERMSIG(s) <= 126
WIFSTOPPED(s) == s % 256 = 127
WIFCONTINUED(s) == s = 65535

VARIABLES
    jobs,          \* job_t jobs[MAX_JOBS], indexed 0..MAX_JOBS-1
    current_jid,
    previous_jid,
    next_seq,
    exit_code,     \* last_exit_code
    sigblocked,    \* SIGCHLD is in the shell's signal mask
    tty_pgrp,      \* foreground process group of the terminal
    interactive,   \* isatty(STDIN_FILENO)
    procs,         \* the shell's children as the OS sees them
    pc,            \* position of the main line
    pipeline,      \* the Command list execute_pipeline was called with
    loc,           \* locals of execute_pipeline / builtin_fg / builtin_bg
    out,           \* what the latest printing step of the main line printed
    line,          \* parser: the input line
    parsed,        \* parser: whether the line is parsed, and what parser_parse returned
    sh             \* the shell's working directory and its environment

jobvars == <<jobs, current_jid, previous_jid, next_seq>>
vars == <<jobs, current_jid, previous_jid, next_seq, exit_code, sigblocked,
          tty_pgrp, interactive, procs, pc, pipeline, loc, out, line, parsed,
          sh>>

(* ---- job table -------------------------------------------------------- *)
Slots == 0 .. (MAX_JOBS - 1)

\* a slot after memset(j, 0, sizeof(*j))
ZeroJob == [used |-> 0, jid |-> 0, seq |-> 0, pgid |-> 0, state |-> JOB_UNUSED,
            nprocs |-> 0, alive |-> 0, pids |-> <<>>, last_pid |-> 0,
            last_status_valid |-> 0, last_status |-> 0, notified |-> 0]

NULL == -1

jobs_any_used(js) == \E i \in Slots : js[i].used = 1

RECURSIVE job_by_jid_from(_, _, _)
job_by_jid_from(js, jid, i) ==
    IF i >= MAX_JOBS THEN NULL
    ELSE IF js[i].used = 1 /\ js[i].jid = jid THEN i
    ELSE job_by_jid_from(js, jid, i + 1)

job_by_jid(js, jid) == job_by_jid_from(js, jid, 0)

RECURSIVE job_by_pid_from(_, _, _)
job_by_pid_from(js, pid, i) ==
    IF i >= MAX_JOBS THEN NULL
    ELSE IF js[i].used = 1 /\ (\E k \in 1 .. Len(js[i].pids) : js[i].pids[k] = pid) THEN i
    ELSE job_by_pid_from(js, pid, i + 1)

job_by_pid(js, pid) == job_by_pid_from(js, pid, 0)

RECURSIVE alloc_jid_from(_, _)
alloc_jid_from(js, jid) ==
    IF jid > MAX_JOBS THEN -1
    ELSE IF job_by_jid(js, jid) = NULL THEN jid
    ELSE alloc_jid_from(js, jid + 1)

\* a variant that numbers past the highest jid in use instead of reusing
\* the smallest free one
alloc_jid_past_highest(js) ==
    LET used == {js[i].jid : i \in {k \in Slots : js[k].used = 1}}
    IN  1 + (CHOOSE m \in used : \A x \in used : x <= m)

alloc_jid(js) == alloc_jid_from(js, 1)

\* the loop of recompute_current_previous; acc = [ns, ss, nj, sj]
RECURSIVE rcp_loop(_, _, _)
rcp_loop(js, i, acc) ==
    IF i >= MAX_JOBS THEN acc
    ELSE IF js[i].used = 0 THEN rcp_loop(js, i + 1, acc)
    ELSE IF js[i].seq > acc.ns
         THEN rcp_loop(js, i + 1, [ns |-> js[i].seq, nj |-> js[i].jid,
                                   ss |-> acc.ns, sj |-> acc.nj])
    ELSE IF js[i].seq > acc.ss
         THEN rcp_loop(js, i + 1, [acc EXCEPT !.ss = js[i].seq, !.sj = js[i].jid])
    ELSE rcp_loop(js, i + 1, acc)

\* a variant that recomputes current and leaves previous as it was
recompute_current_only(t) ==
    LET r == rcp_loop(t.jobs, 0, [ns |-> 0, ss |-> 0, nj |-> 0, sj |-> 0])
    IN  [t EXCEPT !.current = r.nj]

\* the table state is the record [jobs, current, previous, next_seq]
recompute_current_previous(t) ==
    LET r == rcp_loop(t.jobs, 0, [ns |-> 0, ss |-> 0, nj |-> 0, sj |-> 0])
    IN  [t EXCEPT !.current = r.nj, !.previous = r.sj]

\* a variant that frees the slot and leaves the marks as they were
job_remove_stale_marks(t, j) ==
    IF j = NULL \/ t.jobs[j].used = 0 THEN t
    ELSE LET t1 == [t EXCEPT !.jobs[j] = ZeroJob]
         IN  IF ~jobs_any_used(t1.jobs) THEN [t1 EXCEPT !.next_seq = 1] ELSE t1

\* a variant that recomputes the marks but never resets next_seq
job_remove_no_reset(t, j) ==
    IF j = NULL \/ t.jobs[j].used = 0 THEN t
    ELSE recompute_current_previous([t EXCEPT !.jobs[j] = ZeroJob])

job_remove(t, j) ==
    IF j = NULL \/ t.jobs[j].used = 0 THEN t
    ELSE LET t1 == [t EXCEPT !.jobs[j] = ZeroJob]
         IN  IF ~jobs_any_used(t1.jobs)
             THEN [t1 EXCEPT !.current = 0, !.previous = 0, !.next_seq = 1]
             ELSE recompute_current_previous(t1)

\* a variant that takes the last free slot instead of the first
first_free_last(js, i) ==
    LET free == {k \in Slots : k >= i /\ js[k].used = 0}
    IN  IF free = {} THEN NULL ELSE CHOOSE k \in free : \A m \in free : m <= k

\* a variant whose scan stops one slot short of the end of the table
RECURSIVE first_free_short(_, _)
first_free_short(js, i) ==
    IF i >= MAX_JOBS - 1 THEN NULL
    ELSE IF js[i].used = 0 THEN i
    ELSE first_free_short(js, i + 1)

RECURSIVE first_free_from(_, _)
first_free_from(js, i) ==
    IF i >= MAX_JOBS THEN NULL
    ELSE IF js[i].used = 0 THEN i
    ELSE first_free_from(js, i + 1)

\* job_add: returns the new table and the slot of the new job (NULL: table full)
job_add(t, pgid, pids, nprocs, last_pid) ==
    LET j == first_free_from(t.jobs, 0)
    IN  IF j = NULL THEN [t |-> t, j |-> NULL]
        ELSE LET js1 == [t.jobs EXCEPT ![j] = [ZeroJob EXCEPT !.used = 1]]
                 jid == alloc_jid(js1)
             IN  IF jid < 0
                 THEN [t |-> [t EXCEPT !.jobs[j] = ZeroJob], j |-> NULL]
                 ELSE LET nj == [ZeroJob EXCEPT
                                   !.used = 1, !.jid = jid, !.seq = t.next_seq,
                                   !.pgid = pgid, !.state = JOB_RUNNING,
                                   !.nprocs = nprocs, !.alive = nprocs,
                                   !.last_pid = last_pid, !.last_status_valid = 0,
                                   !.notified = 0,
                                   !.pids = SubSeq(pids, 1, IF nprocs > MAX_PROCS
                                                            THEN MAX_PROCS ELSE nprocs)]
                          t2 == [t EXCEPT !.jobs[j] = nj, !.next_seq = t.next_seq + 1]
                      IN  [t |-> recompute_current_previous(t2), j |-> j]

status_to_exitcode(status) ==
    IF WIFEXITED(status) THEN WEXITSTATUS(status)
    ELSE IF WIFSIGNALED(status) THEN 128 + WTERMSIG(status)
    ELSE 0

job_mark(t, jid) ==
    IF jid = t.current THEN "+"
    ELSE IF jid = t.previous THEN "-"
    ELSE " "

Table == [jobs |-> jobs, current |-> current_jid, previous |-> previous_jid,
          next_seq |-> next_seq]

SetTable(t) ==
    /\ jobs' = t.jobs
    /\ current_jid' = t.current
    /\ previous_jid' = t.previous
    /\ next_seq' = t.next_seq

(* ---- notifications ---------------------------------------------------- *)
\* one line "[jid]<mark>  <State>\t<cmdline>" of a notification or of `jobs`
JobLine(kind, t, j) ==
    [k |-> kind, jid |-> t.jobs[j].jid, mark |-> job_mark(t, t.jobs[j].jid),
     st |-> t.jobs[j].state, pgid |-> t.jobs[j].pgid]

\* error_print(func, msg, 0)
ErrLine(msg) == [k |-> msg, jid |-> 0, mark |-> " ", st |-> 0, pgid |-> 0]

\* the loop of pipeline_notify_jobs over slots i..MAX_JOBS-1; r = [t, o]
RECURSIVE notify_loop(_, _)
notify_loop(r, i) ==
    IF i >= MAX_JOBS THEN r
    ELSE LET j == r.t.jobs[i]
         IN  IF j.used = 0 \/ j.notified # 0 THEN notify_loop(r, i + 1)
             ELSE IF j.state = JOB_STOPPED
                  THEN notify_loop([t |-> [r.t EXCEPT !.jobs[i].notified = 1],
                                    o |-> Append(r.o, JobLine("notify", r.t, i))],
                                   i + 1)
             ELSE IF j.state = JOB_DONE
                  THEN notify_loop([t |-> job_remove([r.t EXCEPT !.jobs[i].notified = 1], i),
                                    o |-> Append(r.o, JobLine("notify", r.t, i))],
                                   i + 1)
             ELSE notify_loop(r, i + 1)

\* pipeline_notify_jobs: SIGCHLD is blocked for the whole pass
pipeline_notify_jobs(t, o) == notify_loop([t |-> t, o |-> o], 0)

(* ---- job specs -------------------------------------------------------- *)
Digits == <<"0", "1", "2", "3", "4", "5", "6", "7", "8", "9">>
IsDigit(c) == \E d \in 1 .. 10 : Digits[d] = c
DigitVal(c) == (CHOOSE d \in 1 .. 10 : Digits[d] = c) - 1

\* strtol(s, &end, 10) on a word: white space, an optional sign, digits.
\* Returns [v, end, erange]: end is the index of the first character not
\* consumed (end = 1 means no conversion was performed), erange says that
\* the digits name a value outside [LONG_MIN, LONG_MAX] (errno = ERANGE;
\* v is then not read by the callers).
RECURSIVE strtol_space(_, _)
strtol_space(s, i) ==
    IF i <= Len(s) /\ s[i] = " " THEN strtol_space(s, i + 1) ELSE i

RECURSIVE strtol_zeros(_, _)
strtol_zeros(s, i) ==
    IF i <= Len(s) /\ s[i] = "0" THEN strtol_zeros(s, i + 1) ELSE i

RECURSIVE strtol_digits(_, _, _)
strtol_digits(s, i, acc) ==
    IF i <= Len(s) /\ IsDigit(s[i]) THEN strtol_digits(s, i + 1, acc * 10 + DigitVal(s[i]))
    ELSE [v |-> acc, end |-> i]

\* the decimal digits of LONG_MAX = 2^63 - 1; -LONG_MIN ends in 8
LongMax == <<9, 2, 2, 3, 3, 7, 2, 0, 3, 6, 8, 5, 4, 7, 7, 5, 8, 0, 7>>

\* the digits s[from .. to-1] name a magnitude that no long holds
strtol_erange(s, from, to, neg) ==
    LET z == strtol_zeros(s, from)
        n == to - z
        lim == IF neg THEN [LongMax EXCEPT ![Len(LongMax)] = 8] ELSE LongMax
    IN  \/ n > Len(LongMax)
        \/ /\ n = Len(LongMax)
           /\ \E i \in 1 .. n :
                 /\ DigitVal(s[z + i - 1]) > lim[i]
                 /\ \A j \in 1 .. (i - 1) : DigitVal(s[z + j - 1]) = lim[j]

strtol(s) ==
    LET first == strtol_space(s, 1)
        signed == first <= Len(s) /\ s[first] \in {"+", "-"}
        neg == signed /\ s[first] = "-"
        start == IF signed THEN first + 1 ELSE first
        e == strtol_digits(s, start, 0).end
    IN  IF e = start THEN [v |-> 0, end |-> 1, erange |-> FALSE]
        ELSE IF strtol_erange(s, start, e, neg) THEN [v |-> 0, end |-> e, erange |-> TRUE]
        ELSE LET r == strtol_digits(s, start, 0)
             IN  [v |-> IF neg THEN 0 - r.v ELSE r.v, end |-> r.end, erange |-> FALSE]

INT_MAX == 2147483647

\* parse_job_spec(s): hasarg = FALSE stands for s == NULL
parse_job_spec(t, hasarg, s) ==
    IF ~hasarg THEN t.current
    ELSE IF Len(s) >= 1 /\ s[1] = "%" /\
            (Len(s) = 1 \/ s[2] = "+" \/ s[2] = "%") THEN t.current
    ELSE IF Len(s) >= 2 /\ s[1] = "%" /\ s[2] = "-" THEN t.previous
    ELSE LET s1 == IF Len(s) >= 1 /\ s[1] = "%" THEN Tail(s) ELSE s
             r == strtol(s1)
         IN  IF r.erange \/ r.end = 1 \/ r.end <= Len(s1) \/ r.v <= 0
                \/ r.v > INT_MAX THEN -1
             ELSE r.v

(* ---- commands --------------------------------------------------------- *)
\* A pipeline as execute_pipeline sees it: the head command's name and
\* argument, the number of stages, whether the head has a redirection, and
\* the head's background flag.
JobSpecArgs == {<<"%", "-">>, <<"%", "1">>, <<"2">>}

ExtCmds == [head : {"ext"}, argc : {1}, arg : {<<>>}, n : 1 .. (MAX_PROCS + 1),
            redir : {FALSE}, background : BOOLEAN]
JobsCmds == [head : {"jobs"}, argc : {1}, arg : {<<>>}, n : {1},
             redir : BOOLEAN, background : {FALSE}]
FgBgCmds == [head : {"fg", "bg"}, argc : {1}, arg : {<<>>}, n : {1},
             redir : {FALSE}, background : {FALSE}]
            \cup [head : {"fg", "bg"}, argc : {2}, arg : JobSpecArgs, n : {1},
                  redir : {FALSE}, background : {FALSE}]
\* the lines main_loop can hand to execute_pipeline
Cmds == ExtCmds \cup JobsCmds \cup FgBgCmds

NoCmd == [head |-> "none", argc |-> 0, arg |-> <<>>, n |-> 0,
          redir |-> FALSE, background |-> FALSE]

\* locals of execute_pipeline, builtin_fg and builtin_bg
\*   i, pgid, pids, last_pid : the fork loop;  job : the job_t* (a slot)
\*   k : index of the reap loop at fatal_unblocked
\*   caller : who called wait_foreground;  wstate : the job state that ended it
\*   ret : the value execute_pipeline returned
\*   lstat : history, not a variable of the program: the raw status with
\*           which the child last_pid terminated (-1: it has not terminated)
NoLoc == [i |-> 0, pgid |-> 0, pids |-> <<>>, last_pid |-> -1, job |-> NULL,
          k |-> 0, caller |-> "none", wstate |-> JOB_UNUSED, ret |-> 0,
          lstat |-> -1]

(* ---- processes -------------------------------------------------------- *)
Pids == 1 .. MaxPid
\* st: "free" (no such child), "run", "stop", "zombie"
\* pend: a stop or continue the parent has not yet collected with waitpid
NoProc == [st |-> "free", status |-> 0, pend |-> "none", pgrp |-> 0]

Referenced(js, p) ==
    \E i \in Slots : js[i].used = 1 /\ \E k \in 1 .. Len(js[i].pids) : js[i].pids[k] = p

\* pids fork() may return: not a living child, not named by a job or by pids[]
FreePids == {p \in Pids : /\ procs[p].st = "free"
                          /\ ~Referenced(jobs, p)
                          /\ \A k \in 1 .. Len(loc.pids) : loc.pids[k] # p}

\* kill(-pgid, SIGCONT): every stopped member of the group continues
kill_cont(ps, pgid) ==
    [p \in Pids |-> IF ps[p].pgrp = pgid /\ ps[p].st = "stop"
                    THEN [ps[p] EXCEPT !.st = "run", !.pend = "continued"]
                    ELSE ps[p]]

Waitable(p) == procs[p].st = "zombie" \/ (procs[p].st # "free" /\ procs[p].pend # "none")

\* what waitpid(-1, &status, WNOHANG | WUNTRACED | WCONTINUED) stores for p
WaitStatus(p) ==
    IF procs[p].st = "zombie" THEN procs[p].status
    ELSE IF procs[p].pend = "stopped" THEN StStopped
    ELSE StContinued

\* the child table after waitpid returned p
Collected(p) ==
    IF procs[p].st = "zombie" THEN [procs EXCEPT ![p] = NoProc]
    ELSE [procs EXCEPT ![p].pend = "none"]

(* ---- the SIGCHLD reaper ----------------------------------------------- *)
\* a variant that records the status of whichever stage terminates
reap_one_any_stage(js, pid, status) ==
    LET j == job_by_pid(js, pid)
    IN  IF j = NULL THEN js
        ELSE IF WIFSTOPPED(status)
             THEN [js EXCEPT ![j].state = JOB_STOPPED, ![j].notified = 0]
        ELSE IF WIFCONTINUED(status)
             THEN [js EXCEPT ![j].state = JOB_RUNNING, ![j].notified = 0]
        ELSE IF WIFEXITED(status) \/ WIFSIGNALED(status)
             THEN LET js1 == [js EXCEPT ![j].last_status = status,
                                        ![j].last_status_valid = 1]
                      js2 == IF js1[j].alive > 0
                             THEN [js1 EXCEPT ![j].alive = @ - 1]
                             ELSE js1
                  IN  IF js2[j].alive = 0
                      THEN [js2 EXCEPT ![j].state = JOB_DONE, ![j].notified = 0]
                      ELSE js2
        ELSE js

\* a variant that never records a termination status
reap_one_unrecorded(js, pid, status) ==
    LET j == job_by_pid(js, pid)
        r == reap_one_any_stage(js, pid, status)
    IN  IF j = NULL THEN r
        ELSE [r EXCEPT ![j].last_status = js[j].last_status,
                       ![j].last_status_valid = js[j].last_status_valid]

\* a variant that frees the slot of a job as soon as it is done
reap_one_removing(js, pid, status) ==
    LET j == job_by_pid(js, pid)
        r == reap_one_any_stage(js, pid, status)
    IN  IF j # NULL /\ r[j].state = JOB_DONE THEN [r EXCEPT ![j] = ZeroJob] ELSE r

\* the body of the while loop of jobs_sigchld_reap for one (pid, status)
reap_one(js, pid, status) ==
    LET j == job_by_pid(js, pid)
    IN  IF j = NULL THEN js
        ELSE IF WIFSTOPPED(status)
             THEN [js EXCEPT ![j].state = JOB_STOPPED, ![j].notified = 0]
        ELSE IF WIFCONTINUED(status)
             THEN [js EXCEPT ![j].state = JOB_RUNNING, ![j].notified = 0]
        ELSE IF WIFEXITED(status) \/ WIFSIGNALED(status)
             THEN LET js1 == IF pid = js[j].last_pid
                             THEN [js EXCEPT ![j].last_status = status,
                                             ![j].last_status_valid = 1]
                             ELSE js
                      js2 == IF js1[j].alive > 0
                             THEN [js1 EXCEPT ![j].alive = @ - 1]
                             ELSE js1
                  IN  IF js2[j].alive = 0
                      THEN [js2 EXCEPT ![j].state = JOB_DONE, ![j].notified = 0]
                      ELSE js2
        ELSE js

\* No child has a status change the shell has not collected.
Quiet == \A p \in Pids : ~Waitable(p)

\* The kernel runs the handler as soon as SIGCHLD is pending and unblocked:
\* the main line takes no step, and no further child changes state, while a
\* status is waiting to be collected and SIGCHLD is unblocked.
MayRun == sigblocked \/ Quiet

\* sigsuspend returns when the handler has run; wait_foreground then tests
\* its loop condition again (pipeline.c:609-612) with SIGCHLD blocked, and
\* either sleeps again or restores the mask and returns
AfterHandler(js, l) ==
    IF pc = "wf_suspend" /\ ~(js[l.job].used = 1 /\ js[l.job].state = JOB_RUNNING)
    THEN pc' = "finalize" /\ loc' = [l EXCEPT !.wstate = js[l.job].state]
    ELSE pc' = pc /\ loc' = l

\* The handler collects a status that was left pending while SIGCHLD was
\* blocked (or that kill(SIGCONT) has just produced).  One run of the
\* handler that collects several children is a sequence of Reap steps.
Reap(p) ==
    /\ pc # "exited"
    /\ ~sigblocked
    /\ Waitable(p)
    /\ jobs' = reap_one(jobs, p, WaitStatus(p))
    /\ procs' = Collected(p)
    /\ AfterHandler(jobs', loc)
    /\ UNCHANGED <<current_jid, previous_jid, next_seq, exit_code, sigblocked,
                   tty_pgrp, interactive, pipeline, out, line, parsed, sh>>

(* ---- the environment: children change state --------------------------- *)
\* A child changes state.  With SIGCHLD blocked the status stays pending in
\* the child table; with SIGCHLD unblocked the handler runs at once and
\* collects it (np is the child table after the change, l the locals with
\* the history field updated).  While the shell is in its fork loop, the
\* children of earlier pipelines are left out: SIGCHLD is blocked there, so
\* the shell sees their changes only after the loop, where they can as well
\* happen.
ChildEvent(p, np, l) ==
    /\ pc # "exited"
    /\ MayRun
    /\ pc = "fork" => \E k \in 1 .. Len(loc.pids) : loc.pids[k] = p
    /\ IF sigblocked
       THEN /\ procs' = np
            /\ loc' = l
            /\ UNCHANGED <<jobs, pc>>
       ELSE /\ jobs' = reap_one(jobs, p, IF np[p].st = "zombie" THEN np[p].status
                                         ELSE IF np[p].pend = "stopped" THEN StStopped
                                         ELSE StContinued)
            /\ procs' = IF np[p].st = "zombie" THEN [np EXCEPT ![p] = NoProc]
                        ELSE [np EXCEPT ![p].pend = "none"]
            /\ AfterHandler(jobs', l)
    /\ UNCHANGED <<current_jid, previous_jid, next_seq, exit_code, sigblocked,
                   tty_pgrp, interactive, pipeline, out, line, parsed, sh>>

\* exit(status), or death by a signal (a stopped child can only be killed)
ChildExit(p, s) ==
    /\ \/ procs[p].st = "run"
       \/ procs[p].st = "stop" /\ WIFSIGNALED(s)
    /\ ChildEvent(p, [procs EXCEPT ![p].st = "zombie", ![p].status = s,
                                   ![p].pend = "none"],
                  IF p = loc.last_pid THEN [loc EXCEPT !.lstat = s] ELSE loc)

\* SIGTSTP, SIGSTOP, SIGTTIN or SIGTTOU stops the child
ChildStop(p) ==
    /\ procs[p].st = "run"
    /\ ChildEvent(p, [procs EXCEPT ![p].st = "stop", ![p].pend = "stopped"], loc)

\* a SIGCONT sent from outside the shell
ChildCont(p) ==
    /\ procs[p].st = "stop"
    /\ ChildEvent(p, [procs EXCEPT ![p].st = "run", ![p].pend = "continued"], loc)

(* ---- main line: main_loop and execute_pipeline ------------------------ *)
\* execute_pipeline returns v to main_loop, which frees the command and
\* prompts again, or leaves its loop when v is 1 or -1 (main.c:132-143)
Return(v) ==
    /\ pc' = IF v = 0 THEN "prompt" ELSE "exited"
    /\ loc' = [NoLoc EXCEPT !.ret = v]

\* what execute_pipeline still reads of the command once it is dispatched
\* (for fg and bg: once the job spec is resolved): the head's name and
\* redirections, the stage count and the background flag
Dispatched(cmd) == [cmd EXCEPT !.argc = 1, !.arg = <<>>]

\* the condition of pipeline.c:920-923 under which builtin_jobctl and
\* builtin_exec are tried in the shell process, for a command they know
ParentBuiltin(cmd) ==
    cmd.n = 1 /\ ~cmd.redir /\ cmd.head \in {"jobs", "fg", "bg", "exit", "cd"}

\* main_loop printed the prompt (which needs HOME), read and parsed a line;
\* execute_pipeline starts with the opportunistic notification pass
\* (pipeline.c:905)
Execute ==
    /\ pc = "prompt"
    /\ sh.HOME # <<"nul">>
    /\ MayRun
    /\ LET r == pipeline_notify_jobs(Table, <<>>)
       IN  SetTable(r.t) /\ out' = r.o
    /\ pc' = "dispatch"
    /\ pipeline' = NoCmd
    /\ loc' = NoLoc
    /\ UNCHANGED <<exit_code, sigblocked, tty_pgrp, interactive, procs, line, parsed, sh>>

\* a variant of the loop that leaves out the jobs that are Done
RECURSIVE jobs_lines_skip_done(_, _, _)
jobs_lines_skip_done(t, i, o) ==
    IF i >= MAX_JOBS THEN o
    ELSE IF t.jobs[i].used = 0 \/ t.jobs[i].state = JOB_DONE
    THEN jobs_lines_skip_done(t, i + 1, o)
    ELSE jobs_lines_skip_done(t, i + 1, Append(o, JobLine("jobs", t, i)))

\* the loop of builtin_jobs over slots i..MAX_JOBS-1
RECURSIVE jobs_lines(_, _, _)
jobs_lines(t, i, o) ==
    IF i >= MAX_JOBS THEN o
    ELSE IF t.jobs[i].used = 0 THEN jobs_lines(t, i + 1, o)
    ELSE jobs_lines(t, i + 1, Append(o, JobLine("jobs", t, i)))

BuiltinJobs(cmd) ==
    /\ pc = "dispatch"
    /\ MayRun
    /\ ParentBuiltin(cmd) /\ cmd.head = "jobs"
    /\ pipeline' = Dispatched(cmd)
    /\ out' = jobs_lines(Table, 0, <<>>)
    /\ exit_code' = 0
    /\ Return(0)
    /\ UNCHANGED <<jobs, current_jid, previous_jid, next_seq, sigblocked, tty_pgrp,
                   interactive, procs, line, parsed, sh>>

\* a variant that makes the job current without moving the old current job
\* to previous
resolve_job_keeps_previous(t, cmd) ==
    LET jid == parse_job_spec(t, cmd.argc >= 2, cmd.arg)
        j == IF jid <= 0 THEN NULL ELSE job_by_jid(t.jobs, jid)
    IN  IF j = NULL THEN [t |-> t, j |-> NULL]
        ELSE [t |-> [t EXCEPT !.current = t.jobs[j].jid,
                              !.jobs[j].notified = 0,
                              !.jobs[j].state = JOB_RUNNING],
              j |-> j]

\* builtin_fg / builtin_bg up to the first sigchld_restore: resolve the
\* job spec, mark the job current, set it Running
resolve_job(t, cmd) ==
    LET jid == parse_job_spec(t, cmd.argc >= 2, cmd.arg)
        j == IF jid <= 0 THEN NULL ELSE job_by_jid(t.jobs, jid)
    IN  IF j = NULL THEN [t |-> t, j |-> NULL]
        ELSE [t |-> [t EXCEPT !.previous = t.current,
                              !.current = t.jobs[j].jid,
                              !.jobs[j].notified = 0,
                              !.jobs[j].state = JOB_RUNNING],
              j |-> j]

BuiltinFgBg(cmd) ==
    /\ pc = "dispatch"
    /\ MayRun
    /\ ParentBuiltin(cmd) /\ cmd.head \in {"fg", "bg"}
    /\ LET r == resolve_job(Table, cmd)
       IN  IF r.j = NULL
           THEN /\ out' = <<ErrLine("no such job")>>
                /\ exit_code' = 1
                /\ pipeline' = cmd
                /\ Return(0)
                /\ UNCHANGED jobvars
           ELSE /\ SetTable(r.t)
                /\ pipeline' = cmd
                /\ loc' = [loc EXCEPT !.job = r.j]
                /\ pc' = IF cmd.head = "fg" THEN "fg_kill" ELSE "bg_kill"
                /\ out' = <<>>
                /\ UNCHANGED exit_code
    /\ UNCHANGED <<sigblocked, tty_pgrp, interactive, procs, line, parsed, sh>>

\* builtin_fg, pipeline.c:648-654
FgKill ==
    /\ pc = "fg_kill"
    /\ MayRun
    /\ procs' = kill_cont(procs, jobs[loc.job].pgid)
    /\ tty_pgrp' = IF interactive THEN jobs[loc.job].pgid ELSE tty_pgrp
    /\ loc' = [loc EXCEPT !.caller = "fg"]
    /\ pc' = "wf_enter"
    /\ out' = <<>>
    /\ pipeline' = Dispatched(pipeline)
    /\ UNCHANGED <<jobs, current_jid, previous_jid, next_seq, exit_code, sigblocked,
                   interactive, line, parsed, sh>>

\* builtin_bg, pipeline.c:709-714
BgKill ==
    /\ pc = "bg_kill"
    /\ MayRun
    /\ procs' = kill_cont(procs, jobs[loc.job].pgid)
    /\ out' = <<JobLine("bg", Table, loc.job)>>
    /\ exit_code' = 0
    /\ Return(0)
    /\ pipeline' = Dispatched(pipeline)
    /\ UNCHANGED <<jobs, current_jid, previous_jid, next_seq, sigblocked, tty_pgrp,
                   interactive, line, parsed, sh>>

\* a variant of the validation that is off by one
too_long_off_by_one(cmd_count) == cmd_count >= MAX_PROCS

\* the stage count validation, pipeline.c:937
too_long(cmd_count) == cmd_count > MAX_PROCS

\* cmd_count > MAX_PROCS: error, exit_code = 1, return -1
TooLong(cmd) ==
    /\ pc = "dispatch"
    /\ MayRun
    /\ ~ParentBuiltin(cmd)
    /\ too_long(cmd.n)
    /\ pipeline' = Dispatched(cmd)
    /\ out' = <<ErrLine("pipeline too long")>>
    /\ exit_code' = 1
    /\ Return(-1)
    /\ UNCHANGED <<jobs, current_jid, previous_jid, next_seq, sigblocked, tty_pgrp,
                   interactive, procs, line, parsed, sh>>

\* a variant of the start of the fork loop that leaves SIGCHLD unblocked
Launch_unblocked(cmd) ==
    /\ pc = "dispatch"
    /\ MayRun
    /\ ~ParentBuiltin(cmd)
    /\ ~too_long(cmd.n)
    /\ next_seq <= MaxSeq
    /\ Cardinality(FreePids) >= cmd.n
    /\ pipeline' = Dispatched(cmd)
    /\ pc' = "fork"
    /\ out' = <<>>
    /\ UNCHANGED <<jobs, current_jid, previous_jid, next_seq, exit_code, tty_pgrp,
                   interactive, procs, loc, line, parsed, sh, sigblocked>>

\* sigchld_block(&prevmask) before the fork loop
Launch(cmd) ==
    /\ pc = "dispatch"
    /\ MayRun
    /\ ~ParentBuiltin(cmd)
    /\ ~too_long(cmd.n)
    /\ next_seq <= MaxSeq
    /\ Cardinality(FreePids) >= cmd.n
    /\ pipeline' = Dispatched(cmd)
    /\ sigblocked' = TRUE
    /\ pc' = "fork"
    /\ out' = <<>>
    /\ UNCHANGED <<jobs, current_jid, previous_jid, next_seq, exit_code, tty_pgrp,
                   interactive, procs, loc, line, parsed, sh>>

\* a variant that hands the terminal to the new group whatever the
\* background flag says
ForkStage_tty_always ==
    /\ pc = "fork"
    /\ loc.i < pipeline.n
    /\ FreePids # {}
    /\ LET pid == CHOOSE p \in FreePids : \A q \in FreePids : p <= q
           pgid == IF loc.pgid = 0 THEN pid ELSE loc.pgid
       IN  /\ procs' = [procs EXCEPT ![pid] = [st |-> "run", status |-> 0,
                                               pend |-> "none", pgrp |-> pgid]]
           /\ tty_pgrp' = IF interactive /\ loc.i = 0 THEN pgid ELSE tty_pgrp
           /\ loc' = [loc EXCEPT !.i = loc.i + 1, !.pgid = pgid,
                                 !.pids = Append(loc.pids, pid), !.last_pid = pid,
                                 !.lstat = -1]
    /\ UNCHANGED <<jobs, current_jid, previous_jid, next_seq, exit_code, sigblocked,
                   interactive, pc, pipeline, out, line, parsed, sh>>

\* one iteration of the fork loop with pipe() and fork() succeeding
ForkStage ==
    /\ pc = "fork"
    /\ loc.i < pipeline.n
    /\ FreePids # {}
    /\ LET pid == CHOOSE p \in FreePids : \A q \in FreePids : p <= q
           pgid == IF loc.pgid = 0 THEN pid ELSE loc.pgid
       IN  /\ procs' = [procs EXCEPT ![pid] = [st |-> "run", status |-> 0,
                                               pend |-> "none", pgrp |-> pgid]]
           /\ tty_pgrp' = IF ~pipeline.background /\ interactive /\ loc.i = 0
                          THEN pgid ELSE tty_pgrp
           /\ loc' = [loc EXCEPT !.i = loc.i + 1, !.pgid = pgid,
                                 !.pids = Append(loc.pids, pid), !.last_pid = pid,
                                 !.lstat = -1]
    /\ UNCHANGED <<jobs, current_jid, previous_jid, next_seq, exit_code, sigblocked,
                   interactive, pc, pipeline, out, line, parsed, sh>>

\* pipe() fails (only a stage that is not the last creates a pipe): goto fatal
PipeFail ==
    /\ pc = "fork"
    /\ loc.i < pipeline.n - 1
    /\ out' = <<ErrLine("pipe")>>
    /\ sigblocked' = FALSE
    /\ pc' = "fatal"
    /\ UNCHANGED <<jobs, current_jid, previous_jid, next_seq, exit_code, tty_pgrp,
                   interactive, procs, pipeline, loc, line, parsed, sh>>

\* fork() fails: goto fatal
ForkFail ==
    /\ pc = "fork"
    /\ loc.i < pipeline.n
    /\ out' = <<ErrLine("fork")>>
    /\ sigblocked' = FALSE
    /\ pc' = "fatal"
    /\ UNCHANGED <<jobs, current_jid, previous_jid, next_seq, exit_code, tty_pgrp,
                   interactive, procs, pipeline, loc, line, parsed, sh>>

\* pipeline.c:1013-1027: job_add, sigchld_restore, and the three ways on
JobAdd ==
    /\ pc = "fork"
    /\ loc.i = pipeline.n
    /\ LET r == job_add(Table, loc.pgid, loc.pids, pipeline.n, loc.last_pid)
       IN  /\ SetTable(r.t)
           /\ sigblocked' = FALSE
           /\ IF r.j = NULL
              THEN /\ out' = <<ErrLine("too many jobs")>>
                   /\ exit_code' = 1
                   /\ pc' = "fatal"
                   /\ UNCHANGED loc
              ELSE IF pipeline.background
              THEN /\ out' = <<JobLine("started", r.t, r.j)>>
                   /\ exit_code' = 0
                   /\ Return(0)
              ELSE /\ pc' = "wf_enter"
                   /\ loc' = [NoLoc EXCEPT !.job = r.j, !.caller = "exec",
                                           !.last_pid = loc.last_pid,
                                           !.lstat = loc.lstat]
                   /\ UNCHANGED <<out, exit_code>>
    /\ UNCHANGED <<tty_pgrp, interactive, procs, pipeline, line, parsed, sh>>

\* wait_foreground: block SIGCHLD, test the loop condition; either sleep in
\* sigsuspend (SIGCHLD unblocked while asleep) or restore the mask and return
WfTest ==
    /\ pc = "wf_enter"
    /\ MayRun
    /\ IF jobs[loc.job].used = 1 /\ jobs[loc.job].state = JOB_RUNNING
       THEN pc' = "wf_suspend" /\ UNCHANGED loc
       ELSE pc' = "finalize" /\ loc' = [loc EXCEPT !.wstate = jobs[loc.job].state]
    /\ UNCHANGED <<jobs, current_jid, previous_jid, next_seq, exit_code, sigblocked,
                   tty_pgrp, interactive, procs, pipeline, out, line, parsed, sh>>

\* the finalisation of execute_pipeline (1038-1047) and of builtin_fg (660-671)
finalize(t, j, caller, ec) ==
    IF t.jobs[j].used = 1 /\ t.jobs[j].state = JOB_DONE
    THEN [t |-> job_remove(t, j),
          ec |-> IF t.jobs[j].last_status_valid # 0
                 THEN status_to_exitcode(t.jobs[j].last_status) ELSE 0]
    ELSE IF caller = "fg"
    THEN [t |-> IF t.jobs[j].used = 1 THEN [t EXCEPT !.jobs[j].notified = 0] ELSE t,
          ec |-> 0]
    ELSE IF t.jobs[j].used = 1 /\ t.jobs[j].state = JOB_STOPPED
    THEN [t |-> [t EXCEPT !.jobs[j].notified = 0], ec |-> 0]
    ELSE [t |-> t, ec |-> ec]

\* after wait_foreground: give the terminal back to the shell, then finalise
\* with SIGCHLD blocked
Finalize ==
    /\ pc = "finalize"
    /\ MayRun
    /\ tty_pgrp' = IF interactive THEN ShellPgid ELSE tty_pgrp
    /\ LET r == finalize(Table, loc.job, loc.caller, exit_code)
       IN  SetTable(r.t) /\ exit_code' = r.ec
    /\ pc' = "notify_end"
    /\ UNCHANGED <<sigblocked, interactive, procs, pipeline, loc, out, line, parsed, sh>>

\* the closing pipeline_notify_jobs() and return 0
NotifyEnd ==
    /\ pc = "notify_end"
    /\ MayRun
    /\ LET r == pipeline_notify_jobs(Table, <<>>)
       IN  SetTable(r.t) /\ out' = r.o
    /\ Return(0)
    /\ UNCHANGED <<exit_code, sigblocked, tty_pgrp, interactive, procs, pipeline,
                   line, parsed, sh>>

\* fatal_unblocked: waitpid(pids[k], &status, 0) for the children started;
\* a child the handler collected first makes waitpid fail with ECHILD
FatalWait ==
    /\ pc = "fatal"
    /\ MayRun
    /\ loc.k < loc.i
    /\ LET p == loc.pids[loc.k + 1]
       IN  /\ procs[p].st \in {"zombie", "free"}
           /\ procs' = [procs EXCEPT ![p] = NoProc]
    /\ loc' = [loc EXCEPT !.k = loc.k + 1]
    /\ UNCHANGED <<jobs, current_jid, previous_jid, next_seq, exit_code, sigblocked,
                   tty_pgrp, interactive, pc, pipeline, out, line, parsed, sh>>

\* the reap loop is over: return -1
FatalReturn ==
    /\ pc = "fatal"
    /\ MayRun
    /\ loc.k = loc.i
    /\ Return(-1)
    /\ UNCHANGED <<jobs, current_jid, previous_jid, next_seq, exit_code, sigblocked,
                   tty_pgrp, interactive, procs, pipeline, out, line, parsed, sh>>

(* ---- the parser (parser.c) -------------------------------------------- *)
\* A string is a sequence of characters; a character is a one-letter TLA+
\* string, except the three below, which are named.
NUL == "nul"
DQUOTE == "dquote"
BACKSLASH == "backslash"

APPEND_STDOUT == 2
APPEND_STDERR == 4

\* s[p] of a C string: the terminating NUL past its end
At(s, p) == IF p <= Len(s) THEN s[p] ELSE NUL

IsSpace(c) == c \in {" ", "\t", "\n", "\r"}

\* the value of $HOME
Home == <<"/", "h">>

\* parser_expand_tilde with HOME set: "~" and "~/..." get HOME in front
parser_expand_tilde(path) ==
    IF At(path, 1) # "~" \/ (At(path, 2) # NUL /\ At(path, 2) # "/") THEN path
    ELSE Home \o Tail(path)

RECURSIVE skip_space(_, _)
skip_space(s, p) == IF IsSpace(At(s, p)) THEN skip_space(s, p + 1) ELSE p

\* the word loop of parser_next_token; returns [p, buf, sq, dq]
RECURSIVE word_loop(_, _, _, _, _)
word_loop(s, p, buf, sq, dq) ==
    LET c == At(s, p)
    IN  IF c = NUL \/ Len(buf) >= TOKEN_BUFFER_SIZE - 1
        THEN [p |-> p, buf |-> buf, sq |-> sq, dq |-> dq]
        ELSE IF c = "'" /\ ~dq THEN word_loop(s, p + 1, buf, ~sq, dq)
        ELSE IF c = DQUOTE /\ ~sq THEN word_loop(s, p + 1, buf, sq, ~dq)
        ELSE IF c = BACKSLASH /\ dq /\ At(s, p + 1) \in {DQUOTE, BACKSLASH}
             THEN word_loop(s, p + 2, Append(buf, At(s, p + 1)), sq, dq)
        ELSE IF ~sq /\ ~dq /\ (IsSpace(c) \/ c \in {"|", "<", ">"})
             THEN [p |-> p, buf |-> buf, sq |-> sq, dq |-> dq]
        ELSE word_loop(s, p + 1, Append(buf, c), sq, dq)

\* parser_next_token(&input, &value): returns [type, value, p]
parser_next_token(s, p0) ==
    LET p == skip_space(s, p0)
        c == At(s, p)
        tok(t, q) == [type |-> t, value |-> <<>>, p |-> q]
    IN  IF c = NUL THEN tok("TOK_END", p)
        ELSE IF c = "|" THEN tok("TOK_PIPE", p + 1)
        ELSE IF c = "<" THEN tok("TOK_REDIR_IN", p + 1)
        ELSE IF c = ">"
             THEN IF At(s, p + 1) = ">" THEN tok("TOK_REDIR_OUT_APPEND", p + 2)
                  ELSE tok("TOK_REDIR_OUT", p + 1)
        ELSE IF c = "2" /\ At(s, p + 1) = ">"
             THEN IF At(s, p + 2) = ">" THEN tok("TOK_REDIR_ERR_APPEND", p + 3)
                  ELSE tok("TOK_REDIR_ERR", p + 2)
        ELSE LET w == word_loop(s, p, <<>>, FALSE, FALSE)
             IN  IF Len(w.buf) >= TOKEN_BUFFER_SIZE - 1 THEN tok("TOK_ERROR", p0)
                 ELSE IF w.sq \/ w.dq THEN tok("TOK_ERROR", p0)
                 ELSE [type |-> "TOK_WORD", value |-> parser_expand_tilde(w.buf),
                       p |-> w.p]

\* a NULL char* (no redirection target)
NoStr == <<NUL>>

\* parser_init_cmd: every field is assigned except background, which keeps
\* whatever malloc's memory held; bg is that indeterminate value read as a
\* truth value
parser_init_cmd(bg) ==
    [argc |-> 0, argv |-> <<>>, redirect |-> <<NoStr, NoStr, NoStr>>,
     append |-> 0, background |-> bg]

parser_arg_append(cmd, arg) ==
    [cmd EXCEPT !.argc = cmd.argc + 1, !.argv = Append(cmd.argv, arg)]

\* a variant that sets both append flags
or_flag_both(append, flag) == APPEND_STDOUT + APPEND_STDERR

\* cur->append |= flag, for a flag that is one bit
or_flag(append, flag) ==
    IF (append \div flag) % 2 = 1 THEN append ELSE append + flag

argv_empty_never(cmd) == FALSE

\* !cur->argv[0]: the command has no word yet
argv_empty(cmd) == cmd.argc = 0

\* what parser_parse returns: NULL, or the list of commands
ParseNull == [ok |-> FALSE, cmds |-> <<>>]

\* The while loop of parser_parse; cmds ends with cur, bgs are the
\* indeterminate background fields of the commands still to be allocated.
\* redir handles a redirection token: slot is REDIR_STDIN, REDIR_STDOUT or
\* REDIR_STDERR counted from 1, flag is the append flag or 0.
RECURSIVE parse_loop(_, _, _, _)
parse_loop(s, p, cmds, bgs) ==
    LET t == parser_next_token(s, p)
        n == Len(cmds)
        cur == cmds[n]
        redir(slot, flag) ==
            LET v == parser_next_token(s, t.p)
            IN  IF cur.redirect[slot] # NoStr \/ v.type # "TOK_WORD" THEN ParseNull
                ELSE parse_loop(s, v.p,
                                [cmds EXCEPT ![n].redirect[slot] = v.value,
                                             ![n].append = IF flag = 0 THEN @
                                                           ELSE or_flag(@, flag)],
                                bgs)
    IN  IF t.type = "TOK_END"
        THEN IF argv_empty(cur) THEN ParseNull ELSE [ok |-> TRUE, cmds |-> cmds]
        ELSE IF t.type = "TOK_WORD"
             THEN parse_loop(s, t.p, [cmds EXCEPT ![n] = parser_arg_append(cur, t.value)],
                             bgs)
        ELSE IF t.type = "TOK_PIPE"
             THEN IF argv_empty(cur) THEN ParseNull
                  ELSE parse_loop(s, t.p, Append(cmds, parser_init_cmd(Head(bgs))),
                                  Tail(bgs))
        ELSE IF t.type = "TOK_REDIR_IN" THEN redir(1, 0)
        ELSE IF t.type = "TOK_REDIR_OUT" THEN redir(2, 0)
        ELSE IF t.type = "TOK_REDIR_OUT_APPEND" THEN redir(2, APPEND_STDOUT)
        ELSE IF t.type = "TOK_REDIR_ERR" THEN redir(3, 0)
        ELSE IF t.type = "TOK_REDIR_ERR_APPEND" THEN redir(3, APPEND_STDERR)
        ELSE ParseNull

\* parser_parse(input)
parser_parse(input, bgs) ==
    IF At(input, skip_space(input, 1)) = NUL THEN ParseNull
    ELSE parse_loop(input, 1, <<parser_init_cmd(Head(bgs))>>, Tail(bgs))

\* snprintf(out + used, CMDLINE_MAX - used, text): o is out[0..used-1];
\* full says that the text did not fit (n >= CMDLINE_MAX - used)
CMDLINE_MAX == 1024

fmt_put(o, text) ==
    LET room == CMDLINE_MAX - Len(o)
    IN  IF Len(text) >= room
        THEN [o |-> o \o SubSeq(text, 1, room - 1), full |-> TRUE]
        ELSE [o |-> o \o text, full |-> FALSE]

\* the inner loop of format_cmdline over argv[i..]
RECURSIVE fmt_args(_, _, _)
fmt_args(argv, i, o) ==
    IF i > Len(argv) THEN [o |-> o, full |-> FALSE]
    ELSE LET r == fmt_put(o, (IF o # <<>> THEN <<" ">> ELSE <<>>) \o argv[i])
         IN  IF r.full THEN r ELSE fmt_args(argv, i + 1, r.o)

\* the outer loop of format_cmdline over the commands n..
RECURSIVE fmt_cmds(_, _, _)
fmt_cmds(cmds, n, o) ==
    IF n > Len(cmds) THEN [o |-> o, full |-> FALSE]
    ELSE LET a == fmt_args(cmds[n].argv, 1, o)
         IN  IF a.full \/ n = Len(cmds) THEN a
             ELSE LET b == fmt_put(a.o, <<" ", "|", " ">>)
                  IN  IF b.full THEN b ELSE fmt_cmds(cmds, n + 1, b.o)

\* format_cmdline(pipeline, out): the words of every stage separated by
\* blanks, the stages by " | ", then " &" for a background pipeline
format_cmdline(cmds) ==
    LET r == fmt_cmds(cmds, 1, <<>>)
    IN  IF r.full THEN r.o
        ELSE IF cmds # <<>> /\ cmds[1].background THEN fmt_put(r.o, <<" ", "&">>).o
        ELSE r.o

\* main_loop has not parsed the line yet
Unparsed == [done |-> FALSE, cmd |-> ParseNull]

\* the characters of the input lines explored
Chars == {"a", " ", "&", "|", ">", "'"}

\* a line of n characters has at most n \div 2 + 1 commands
MaxCmds == MaxLine \div 2 + 1

\* fgets: one more character of the line arrives
TypeChar(c) ==
    /\ ~parsed.done
    /\ Len(line) < MaxLine
    /\ line' = Append(line, c)
    /\ UNCHANGED <<jobs, current_jid, previous_jid, next_seq, exit_code, sigblocked,
                   tty_pgrp, interactive, procs, pc, pipeline, loc, out, parsed, sh>>

\* main_loop: cmd = parser_parse(buf)
ParseLine(bgs) ==
    /\ ~parsed.done
    /\ parsed' = [done |-> TRUE, cmd |-> parser_parse(line, bgs)]
    /\ UNCHANGED <<jobs, current_jid, previous_jid, next_seq, exit_code, sigblocked,
                   tty_pgrp, interactive, procs, pc, pipeline, loc, out, line, sh>>

\* main_loop: parser_free_cmd(cmd) and the next turn of the loop
FreeCmd ==
    /\ parsed.done
    /\ line' = <<>>
    /\ parsed' = Unparsed
    /\ UNCHANGED <<jobs, current_jid, previous_jid, next_seq, exit_code, sigblocked,
                   tty_pgrp, interactive, procs, pc, pipeline, loc, out, sh>>

(* ---- builtins run by builtin_exec (builtin.c) ------------------------- *)
\* error_print(func, msg, 0) where msg is built from an argument
ArgErrLine(arg, msg) ==
    [k |-> msg, jid |-> 0, mark |-> " ", st |-> 0, pgid |-> 0, arg |-> arg]

\* bit b of the two's-complement representation of the long x
Bit(x, b) ==
    IF x >= 0 THEN (x \div (2 ^ b)) % 2
    ELSE 1 - ((((0 - x) - 1) \div (2 ^ b)) % 2)

\* x & 0xFF, bit by bit from bit b upwards
RECURSIVE and_ff_from(_, _)
and_ff_from(x, b) ==
    IF b > 7 THEN 0 ELSE Bit(x, b) * (2 ^ b) + and_ff_from(x, b + 1)

and_ff(x) == and_ff_from(x, 0)

\* C's remainder, which has the sign of the dividend
c_rem(x, m) == IF x >= 0 THEN x % m ELSE 0 - ((0 - x) % m)

parse_exit_code_rem(s) ==
    LET r == strtol(s)
    IN  IF r.end = 1 \/ r.erange \/ r.end <= Len(s) THEN -1
        ELSE c_rem(r.v, 256)

\* parse_exit_code(s): -1 when s is not entirely a number that fits a long
parse_exit_code(s) ==
    LET r == strtol(s)
    IN  IF r.end = 1 \/ r.erange \/ r.end <= Len(s) THEN -1
        ELSE and_ff(r.v)

builtin_exit_always_2(cmd, malloc_ok, ec) ==
    LET code == parse_exit_code(cmd.arg)
    IN  IF cmd.argc = 1 THEN [ret |-> 2, ec |-> 0, o |-> <<>>]
        ELSE IF cmd.argc = 2
        THEN IF code < 0
             THEN IF ~malloc_ok
                  THEN [ret |-> -1, ec |-> 1, o |-> <<ErrLine("malloc")>>]
                  ELSE [ret |-> 2, ec |-> 2,
                        o |-> <<ArgErrLine(cmd.arg, "numeric argument required")>>]
             ELSE [ret |-> 2, ec |-> code, o |-> <<>>]
        ELSE [ret |-> 2, ec |-> 1, o |-> <<ErrLine("too many arguments")>>]

\* builtin_exit(cmd): [ret, ec, o] are the value returned, exit_code and
\* the text printed; malloc_ok says whether malloc of the message succeeds
builtin_exit(cmd, malloc_ok, ec) ==
    LET code == parse_exit_code(cmd.arg)
    IN  IF cmd.argc = 1 THEN [ret |-> 2, ec |-> 0, o |-> <<>>]
        ELSE IF cmd.argc = 2
        THEN IF code < 0
             THEN IF ~malloc_ok
                  THEN [ret |-> -1, ec |-> 1, o |-> <<ErrLine("malloc")>>]
                  ELSE [ret |-> -1, ec |-> 2,
                        o |-> <<ArgErrLine(cmd.arg, "numeric argument required")>>]
             ELSE [ret |-> 2, ec |-> code, o |-> <<>>]
        ELSE [ret |-> -1, ec |-> 1, o |-> <<ErrLine("too many arguments")>>]

\* what execute_pipeline returns for the value ret of builtin_exec
\* (pipeline.c:930-934): 1 when the exit builtin asks to leave, else 0
after_builtin_exec(ret) == IF ret = 2 THEN 1 ELSE 0

\* execute_pipeline runs `exit` in the shell process
BuiltinExit(cmd, malloc_ok) ==
    /\ pc = "dispatch"
    /\ MayRun
    /\ ParentBuiltin(cmd) /\ cmd.head = "exit"
    /\ LET r == builtin_exit(cmd, malloc_ok, exit_code)
       IN  /\ exit_code' = r.ec
           /\ out' = r.o
           /\ Return(after_builtin_exec(r.ret))
    /\ pipeline' = cmd
    /\ UNCHANGED <<jobs, current_jid, previous_jid, next_seq, sigblocked, tty_pgrp,
                   interactive, procs, line, parsed, sh>>

\* the longest argument word explored
MaxArg == 3

\* the words over a set of characters, up to MaxArg characters
Words(chars) == UNION {[1 .. n -> chars] : n \in 0 .. MaxArg}

ExitChars == {"1", "2", "5", "7", "-", "+", "a", " "}

JobSpecChars == {"%", "+", "-", "0", "1", "2", "a"}

\* `fg`, `bg`, `fg <word>` and `bg <word>` for every word
JobSpecCmds ==
    [head : {"fg", "bg"}, argc : {1}, arg : {<<>>}, n : {1},
     redir : {FALSE}, background : {FALSE}]
    \cup [head : {"fg", "bg"}, argc : {2}, arg : Words(JobSpecChars), n : {1},
          redir : {FALSE}, background : {FALSE}]

\* one external command run in the background
BgCmds == [head : {"ext"}, argc : {1}, arg : {<<>>}, n : {1},
           redir : {FALSE}, background : {TRUE}]

\* `exit`, `exit <word>` and `exit <word> <word>`
ExitCmds ==
    [head : {"exit"}, argc : {1}, arg : {<<>>}, n : {1},
     redir : {FALSE}, background : {FALSE}]
    \cup [head : {"exit"}, argc : {2}, arg : Words(ExitChars), n : {1},
          redir : {FALSE}, background : {FALSE}]
    \cup [head : {"exit"}, argc : {3}, arg : {<<"1">>, <<"a">>}, n : {1},
          redir : {FALSE}, background : {FALSE}]

\* the file system the shell runs in: the directories /, /h and /d, a
\* symbolic link /l to /d, a regular file /f and a directory /x without
\* search permission
Root == <<"/">>
DirD == <<"/", "d">>
LinkL == <<"/", "l">>
FileF == <<"/", "f">>
DirX == <<"/", "x">>
DotDot == <<".", ".">>
Dirs == {Root, Home, DirD, DirX}

\* the object an absolute path names, symbolic links followed
lookup(abs) ==
    IF abs = LinkL THEN DirD
    ELSE IF abs \in Dirs \cup {FileF} THEN abs
    ELSE NoStr

\* the object a path names for a process whose working directory is cwd
\* (NoStr: ENOENT)
realpath(cwd, path) ==
    IF path = <<>> \/ path = NoStr THEN NoStr
    ELSE IF path = DotDot THEN Root
    ELSE IF path[1] = "/" THEN lookup(path)
    ELSE IF cwd = Root THEN lookup(Root \o path)
    ELSE NoStr

\* puts(path)
PathLine(path) == ArgErrLine(path, "puts")

\* the library calls of builtin_cd that can fail whatever the arguments are
CdFaults == {"none", "strdup", "getcwd", "chdir", "setenv OLDPWD", "getcwd 2",
             "setenv PWD"}

builtin_cd_pwd_is_path(e, cmd, fault) ==
    LET Fail(o) == [ret |-> -1, ec |-> 1, o |-> o, sh |-> e]
        dash == cmd.argc = 2 /\ cmd.arg = <<"-">>
        path == IF cmd.argc = 1 THEN e.HOME
                ELSE IF dash THEN e.OLDPWD ELSE cmd.arg
        target == realpath(e.cwd, path)
    IN  IF cmd.argc > 2 \/ path = NoStr \/ fault # "none" \/ target = NoStr
           \/ target \notin Dirs \/ target = DirX
        THEN Fail(<<ErrLine("cd")>>)
        ELSE [ret |-> 0, ec |-> 0,
              o |-> IF dash THEN <<PathLine(path)>> ELSE <<>>,
              sh |-> [e EXCEPT !.cwd = target, !.OLDPWD = e.cwd, !.PWD = path]]

\* builtin_cd(cmd) in a process whose directory and environment are e:
\* [ret, ec, o, sh] are the value returned, exit_code, the text printed and
\* the directory and environment afterwards
builtin_cd(e, cmd, fault) ==
    LET Fail(o, e1) == [ret |-> -1, ec |-> 1, o |-> o, sh |-> e1]
        dash == cmd.argc = 2 /\ cmd.arg = <<"-">>
        path == IF cmd.argc = 1 THEN e.HOME
                ELSE IF dash THEN e.OLDPWD ELSE cmd.arg
        target == realpath(e.cwd, path)
        printed == IF dash THEN <<PathLine(path)>> ELSE <<>>
        moved == [e EXCEPT !.cwd = target]
        old_set == [moved EXCEPT !.OLDPWD = e.cwd]
    IN  IF cmd.argc > 2 THEN Fail(<<ErrLine("too many arguments")>>, e)
        ELSE IF cmd.argc = 1 /\ e.HOME = NoStr
        THEN Fail(<<ErrLine("HOME env variable not set")>>, e)
        ELSE IF dash /\ e.OLDPWD = NoStr
        THEN Fail(<<ErrLine("OLDPWD env variable not set")>>, e)
        ELSE IF fault = "strdup" THEN Fail(<<ErrLine("strdup")>>, e)
        ELSE IF target = NoStr THEN Fail(<<ArgErrLine(path, "ENOENT")>>, e)
        ELSE IF target \notin Dirs THEN Fail(<<ArgErrLine(path, "ENOTDIR")>>, e)
        ELSE IF target = DirX THEN Fail(<<ArgErrLine(path, "EACCES")>>, e)
        ELSE IF fault = "getcwd" THEN Fail(<<ErrLine("getcwd")>>, e)
        ELSE IF fault = "chdir" THEN Fail(<<ArgErrLine(path, "chdir")>>, e)
        ELSE IF fault = "setenv OLDPWD"
        THEN Fail(printed \o <<ErrLine("setenv OLDPWD")>>, moved)
        ELSE IF fault = "getcwd 2"
        THEN Fail(printed \o <<ErrLine("getcwd")>>, old_set)
        ELSE IF fault = "setenv PWD"
        THEN Fail(printed \o <<ErrLine("setenv PWD")>>, old_set)
        ELSE [ret |-> 0, ec |-> 0, o |-> printed,
              sh |-> [old_set EXCEPT !.PWD = target]]

\* execute_pipeline runs `cd` in the shell process
BuiltinCd(cmd, fault) ==
    /\ pc = "dispatch"
    /\ MayRun
    /\ ParentBuiltin(cmd) /\ cmd.head = "cd"
    /\ LET r == builtin_cd(sh, cmd, fault)
       IN  /\ exit_code' = r.ec
           /\ out' = r.o
           /\ sh' = r.sh
           /\ Return(after_builtin_exec(r.ret))
    /\ pipeline' = cmd
    /\ UNCHANGED <<jobs, current_jid, previous_jid, next_seq, sigblocked, tty_pgrp,
                   interactive, procs, line, parsed>>

\* the arguments of `cd` explored
CdArgs == {<<"-">>, Root, Home, DirD, LinkL, FileF, DirX, <<"d">>, DotDot,
           <<"/", "n">>}

\* `cd`, `cd <word>` and `cd <word> <word>`: alone or as the head of a
\* pipeline, with or without a redirection, in the foreground; and alone
\* without redirection with the background flag set
CdWords == [argc : {1}, arg : {<<>>}] \cup [argc : {2}, arg : CdArgs]
                                      \cup [argc : {3}, arg : {Home}]

CdCmds ==
    {[head |-> "cd", argc |-> w.argc, arg |-> w.arg, n |-> n, redir |-> r,
      background |-> FALSE] : w \in CdWords, n \in 1 .. MAX_PROCS, r \in BOOLEAN}
    \cup {[head |-> "cd", argc |-> w.argc, arg |-> w.arg, n |-> 1, redir |-> FALSE,
           background |-> TRUE] : w \in CdWords}

\* the directory and environment a shell starts with
StartEnv == [cwd |-> Root, PWD |-> Root, OLDPWD |-> NoStr, HOME |-> Home]

\* the directories and environments explored; HOME is set in all of them,
\* as print_prompt gives up without it before any line is read
\* (main.c:60-64)
Envs == [cwd : {Root, Home}, PWD : {Root, Home, NoStr}, OLDPWD : {NoStr, DirD},
         HOME : {Home, FileF}]

(* ---- specification ---------------------------------------------------- *)

\* main() has set up the signals; nothing has been read yet; the working
\* directory and the environment are e
InitEnv(e) ==
    /\ jobs = [i \in Slots |-> ZeroJob]
    /\ current_jid = 0
    /\ previous_jid = 0
    /\ next_seq = 1
    /\ exit_code = 0
    /\ sigblocked = FALSE
    /\ tty_pgrp = ShellPgid
    /\ interactive \in BOOLEAN
    /\ procs = [p \in Pids |-> NoProc]
    /\ pc = "prompt"
    /\ pipeline = NoCmd
    /\ loc = NoLoc
    /\ out = <<>>
    /\ line = <<>>
    /\ parsed = Unparsed
    /\ sh = e

Init == InitEnv(StartEnv)

Next ==
    \/ Execute
    \/ \E cmd \in Cmds : BuiltinJobs(cmd)
    \/ \E cmd \in Cmds : BuiltinFgBg(cmd)
    \/ FgKill
    \/ BgKill
    \/ \E cmd \in Cmds : TooLong(cmd)
    \/ \E cmd \in Cmds : Launch(cmd)
    \/ ForkStage
    \/ PipeFail
    \/ ForkFail
    \/ JobAdd
    \/ WfTest
    \/ Finalize
    \/ NotifyEnd
    \/ FatalWait
    \/ FatalReturn
    \/ \E p \in Pids : Reap(p)
    \/ \E p \in Pids, s \in ChildStatuses : ChildExit(p, s)
    \/ \E p \in Pids : ChildStop(p)
    \/ \E p \in Pids : ChildCont(p)

Spec == Init /\ [][Next]_vars

\* the parser alone: main_loop reads a line, parses it, frees the result
NextParse ==
    \/ \E c \in Chars : TypeChar(c)
    \/ \E bgs \in [1 .. MaxCmds -> BOOLEAN] : ParseLine(bgs)
    \/ FreeCmd

SpecParse == Init /\ [][NextParse]_vars

\* the exit builtin alone: main_loop hands `exit ...` lines to execute_pipeline
NextExit ==
    \/ Execute
    \/ \E cmd \in ExitCmds, malloc_ok \in BOOLEAN : BuiltinExit(cmd, malloc_ok)

SpecExit == Init /\ [][NextExit]_vars

\* job specs: background jobs are started, stop, and are named to fg and
\* bg by every word
NextJobSpec ==
    \/ Execute
    \/ \E cmd \in BgCmds : Launch(cmd)
    \/ ForkStage
    \/ JobAdd
    \/ \E cmd \in JobSpecCmds : BuiltinFgBg(cmd)
    \/ FgKill
    \/ BgKill
    \/ WfTest
    \/ Finalize
    \/ NotifyEnd
    \/ \E p \in Pids : Reap(p)
    \/ \E p \in Pids : ChildStop(p)

SpecJobSpec == Init /\ [][NextJobSpec]_vars

\* the cd builtin, in the shell process or in a child: main_loop hands
\* `cd ...` lines to execute_pipeline, from any starting directory
InitCd == \E e \in Envs : InitEnv(e)

NextCd ==
    \/ Execute
    \/ \E cmd \in CdCmds, fault \in CdFaults : BuiltinCd(cmd, fault)
    \/ \E cmd \in CdCmds : Launch(cmd)
    \/ ForkStage
    \/ JobAdd
    \/ WfTest
    \/ Finalize
    \/ NotifyEnd
    \/ \E p \in Pids : Reap(p)
    \/ \E p \in Pids, s \in ChildStatuses : ChildExit(p, s)

SpecCd == InitCd /\ [][NextCd]_vars

(* ---- properties ------------------------------------------------------- *)
UsedSlots(js) == {i \in Slots : js[i].used = 1}

\* execute_pipeline was called with a pipeline it launches (forks), as
\* opposed to a job-control builtin it runs in the shell itself
Launched(cmd) == cmd.head # "none" /\ ~ParentBuiltin(cmd)

\* the step on which execute_pipeline returns to main_loop
Returns == pc \notin {"prompt", "exited"} /\ pc' \in {"prompt", "exited"}

\* C1: in every reachable state every used job has alive = 0 exactly when
\* its state is Done.
C1_AliveZeroIffDone ==
    \A i \in Slots :
        jobs[i].used = 1 => (jobs[i].alive = 0 <=> jobs[i].state = JOB_DONE)

\* C2: when the shell is interactive, whenever execute_pipeline has returned
\* from a foreground pipeline (normally, after a stop, or through a fatal
\* path) the terminal's foreground process group is the shell's own.
C2_TerminalRestoredOnReturn ==
    (interactive /\ pc \in {"prompt", "exited"} /\ Launched(pipeline)
       /\ ~pipeline.background)
    => tty_pgrp = ShellPgid

\* the smallest integer of 1..MAX_JOBS that is the jid of no used job
SmallestFreeJid(js) ==
    CHOOSE n \in 1 .. MAX_JOBS :
        /\ \A i \in UsedSlots(js) : js[i].jid # n
        /\ \A m \in 1 .. (n - 1) : \E i \in UsedSlots(js) : js[i].jid = m

\* C3: a job that enters the table gets the smallest integer of 1..MAX_JOBS
\* that was the jid of no job in the table, and the jids of the jobs in the
\* table are pairwise distinct after every step.
C3_SmallestFreeJid ==
    [][/\ \A i \in Slots :
             (jobs[i].used = 0 /\ jobs'[i].used = 1)
             => jobs'[i].jid = SmallestFreeJid(jobs)
       /\ \A i, k \in UsedSlots(jobs') : i # k => jobs'[i].jid # jobs'[k].jid]_vars

\* a jid that was released has been given to a younger job: the job with the
\* smaller jid was added after the job with the larger one
C3_Witness ==
    \E i, k \in UsedSlots(jobs) :
        jobs[i].jid < jobs[k].jid /\ jobs[i].seq > jobs[k].seq

\* C4: a step that takes the last job out of the table leaves current = 0,
\* previous = 0 and next_seq = 1.
C4_EmptyTableResets ==
    [][(jobs_any_used(jobs) /\ ~jobs_any_used(jobs'))
       => (current_jid' = 0 /\ previous_jid' = 0 /\ next_seq' = 1)]_vars

\* fg has just removed the only job of the table, which an earlier launch
\* had added and bg or fg had made current
C4_Witness ==
    /\ pc = "notify_end" /\ loc.caller = "fg"
    /\ ~jobs_any_used(jobs)
    /\ current_jid = 0 /\ previous_jid = 0 /\ next_seq = 1

\* the exit code the claim gives for a raw status: low 8 bits of the exit
\* status of a child that exited, 128 + s for one killed by signal s
C5_ExitCodeOf(status) ==
    IF status % 128 = 0 THEN (status \div 256) % 256 ELSE 128 + (status % 128)

\* C5: when execute_pipeline finalises a foreground pipeline all of whose
\* stages are reaped, last_exit_code becomes the exit code of the raw status
\* with which the last stage terminated, and the job leaves the table.
C5_ExitCodeOfLastStage ==
    [][(/\ pc = "finalize" /\ pc' = "notify_end"
        /\ loc.caller = "exec"
        /\ jobs[loc.job].used = 1 /\ jobs[loc.job].state = JOB_DONE)
       => (/\ loc.lstat \in ChildStatuses
           /\ exit_code' = C5_ExitCodeOf(loc.lstat)
           /\ jobs'[loc.job].used = 0
           /\ \A i \in UsedSlots(jobs') : jobs'[i].pgid # jobs[loc.job].pgid)]_vars

\* a two-stage foreground pipeline whose last stage was killed by signal 9
\* has been finalised: exit code 137, job gone
C5_Witness ==
    /\ pc = "notify_end" /\ loc.caller = "exec"
    /\ pipeline.n = 2
    /\ loc.lstat = 9 /\ exit_code = 137
    /\ jobs[loc.job].used = 0

\* C6: when the foreground wait of execute_pipeline ended because the job
\* was Stopped, the finalisation sets last_exit_code to 0, keeps the job in
\* the table and clears notified, and execute_pipeline returns with
\* last_exit_code = 0, the job in the table and the job reported as Stopped
\* by the closing notification pass.
C6_StoppedForeground ==
    [][/\ (/\ pc = "finalize" /\ pc' = "notify_end"
           /\ loc.caller = "exec" /\ loc.wstate = JOB_STOPPED)
          => (/\ exit_code' = 0
              /\ jobs'[loc.job].used = 1
              /\ jobs'[loc.job].notified = 0)
       /\ (/\ pc = "notify_end" /\ Returns
           /\ loc.caller = "exec" /\ loc.wstate = JOB_STOPPED)
          => (/\ exit_code' = 0
              /\ jobs'[loc.job].used = 1
              /\ \E n \in 1 .. Len(out') :
                    /\ out'[n].k = "notify"
                    /\ out'[n].jid = jobs'[loc.job].jid
                    /\ out'[n].st = JOB_STOPPED)]_vars

\* C7: the step that registers a background pipeline adds a Running job
\* with notified = 0, prints its jid and pgid, sets last_exit_code to 0 and
\* returns at once, collecting no child; and no step of a background launch
\* changes the terminal's foreground process group.
C7_BackgroundLaunch ==
    [][/\ (pc = "fork" /\ pipeline.background /\ Returns)
          => /\ \E j \in Slots :
                   /\ jobs[j].used = 0 /\ jobs'[j].used = 1
                   /\ jobs'[j].state = JOB_RUNNING
                   /\ jobs'[j].notified = 0
                   /\ jobs'[j].alive = pipeline.n
                   /\ out' = <<[k |-> "started", jid |-> jobs'[j].jid,
                                mark |-> job_mark(Table', jobs'[j].jid),
                                st |-> JOB_RUNNING, pgid |-> loc.pgid]>>
             /\ exit_code' = 0
             /\ procs' = procs
             /\ pc' = "prompt"
       /\ (pc = "fork" /\ pipeline.background) => tty_pgrp' = tty_pgrp]_vars

\* an interactive shell is back at its prompt after a background launch:
\* the job runs, its child has not been waited for, the terminal is the
\* shell's
C7_Witness ==
    /\ interactive /\ pc = "prompt"
    /\ Launched(pipeline) /\ pipeline.background
    /\ Len(out) = 1 /\ out[1].k = "started"
    /\ \E j \in UsedSlots(jobs) :
          /\ jobs[j].pgid = out[1].pgid
          /\ jobs[j].state = JOB_RUNNING /\ jobs[j].alive = jobs[j].nprocs
          /\ \A n \in 1 .. Len(jobs[j].pids) : procs[jobs[j].pids[n]].st = "run"
    /\ tty_pgrp = ShellPgid

\* the last character of the line that is not white space
RECURSIVE LastNonSpace(_)
LastNonSpace(l) ==
    IF l = <<>> THEN NUL
    ELSE IF IsSpace(l[Len(l)]) THEN LastNonSpace(SubSeq(l, 1, Len(l) - 1))
    ELSE l[Len(l)]

Contains(l, c) == \E n \in 1 .. Len(l) : l[n] = c

\* C8: of a line the parser accepts, a trailing `&` (outside quotes) is in
\* no argv and sets the background flag of the head command; a line without
\* `&` yields a head command whose background flag is false.
C8_TrailingAmpersand ==
    (parsed.done /\ parsed.cmd.ok /\ ~Contains(line, "'"))
    => /\ LastNonSpace(line) = "&"
          => /\ parsed.cmd.cmds[1].background
             /\ \A n \in 1 .. Len(parsed.cmd.cmds) :
                   \A a \in 1 .. Len(parsed.cmd.cmds[n].argv) :
                      ~Contains(parsed.cmd.cmds[n].argv[a], "&")
       /\ ~Contains(line, "&") => ~parsed.cmd.cmds[1].background

\* C9: the step of execute_pipeline that calls job_add registers a new job
\* when fewer than MAX_JOBS jobs are in the table; with MAX_JOBS jobs in the
\* table it prints "too many jobs", sets last_exit_code to 1 and leaves the
\* table, the marks and next_seq as they were.
C9_TableFull ==
    [][(pc = "fork" /\ pc' # "fork" /\ loc.i = pipeline.n)
       => IF Cardinality(UsedSlots(jobs)) < MAX_JOBS
          THEN /\ Cardinality(UsedSlots(jobs')) = Cardinality(UsedSlots(jobs)) + 1
               /\ pc' # "fatal"
               /\ \A i \in UsedSlots(jobs) : jobs'[i] = jobs[i]
          ELSE /\ out' = <<ErrLine("too many jobs")>>
               /\ exit_code' = 1
               /\ pc' = "fatal"
               /\ jobs' = jobs
               /\ current_jid' = current_jid /\ previous_jid' = previous_jid
               /\ next_seq' = next_seq]_vars

\* a launch has just failed with "too many jobs" against a table whose
\* MAX_JOBS slots hold jobs, the youngest of them the MAX_JOBS-th
C9_Witness ==
    /\ pc = "fatal" /\ loc.i = pipeline.n
    /\ out = <<ErrLine("too many jobs")>> /\ exit_code = 1
    /\ Cardinality(UsedSlots(jobs)) = MAX_JOBS
    /\ \E i \in UsedSlots(jobs) : jobs[i].jid = MAX_JOBS

C11_FatalReturnsToPrompt ==
    [][(/\ pc = "fatal" /\ pc' # "fatal"
        /\ out \in {<<ErrLine("pipe")>>, <<ErrLine("fork")>>})
       => /\ pc' = "prompt"
          /\ \A k \in 1..loc.i : procs'[loc.pids[k]] = NoProc]_vars

\* the names builtin_jobctl and builtin_exec know
BuiltinNames == {"jobs", "fg", "bg", "cd", "exit"}

\* C12: a builtin is run in the shell process exactly when the pipeline has
\* one stage, no redirection and is not background; in every other case
\* execute_pipeline goes on to fork, and the dispatching step changes
\* neither the shell's directory and environment, nor last_exit_code, nor
\* the job table.
C12_BuiltinInShellExactlyWhen ==
    [][(pc = "dispatch" /\ pc' # "dispatch" /\ pipeline'.head \in BuiltinNames)
       => IF pipeline'.n = 1 /\ ~pipeline'.redir /\ ~pipeline'.background
          THEN pc' \in {"prompt", "exited"}
          ELSE /\ pc' = "fork"
               /\ sh' = sh
               /\ exit_code' = exit_code
               /\ jobs' = jobs
               /\ current_jid' = current_jid /\ previous_jid' = previous_jid]_vars

\* a decimal integer as one writes it: an optional sign, then one or more
\* decimal digits and nothing else
IsDecimal(s) ==
    LET d == IF Len(s) >= 1 /\ s[1] \in {"+", "-"} THEN Tail(s) ELSE s
    IN  Len(d) >= 1 /\ \A i \in 1 .. Len(d) : d[i] \in {"0", "1", "2", "3", "4",
                                                        "5", "6", "7", "8", "9"}

\* the digits d read from the right: units, tens, hundreds, ...
RECURSIVE PlaceValue(_)
PlaceValue(d) ==
    IF d = <<>> THEN 0
    ELSE DigitVal(d[Len(d)]) + 10 * PlaceValue(SubSeq(d, 1, Len(d) - 1))

\* the integer a decimal word denotes
DecimalValue(s) ==
    IF s[1] = "-" THEN 0 - PlaceValue(Tail(s))
    ELSE IF s[1] = "+" THEN PlaceValue(Tail(s))
    ELSE PlaceValue(s)

\* the step on which execute_pipeline runs the exit builtin in the shell
ExitStep == pc = "dispatch" /\ pc' # "dispatch" /\ pipeline'.head = "exit"

\* C13: `exit` alone terminates the shell with last_exit_code 0; `exit n`
\* for a decimal integer n, negative or above 255 included, terminates the
\* shell with last_exit_code n mod 256, a value in 0..255 (so never taken
\* for the failure result -1 of parse_exit_code).
C13_ExitCodeMod256 ==
    [][ExitStep =>
        /\ pipeline'.argc = 1 => pc' = "exited" /\ exit_code' = 0 /\ out' = <<>>
        /\ (pipeline'.argc = 2 /\ IsDecimal(pipeline'.arg))
           => /\ pc' = "exited"
              /\ exit_code' = DecimalValue(pipeline'.arg) % 256
              /\ exit_code' \in 0 .. 255
              /\ out' = <<>>]_vars

\* `exit -1` has terminated the shell with last_exit_code 255
C13_Witness ==
    /\ pc = "exited"
    /\ pipeline.head = "exit" /\ pipeline.argc = 2 /\ pipeline.arg = <<"-", "1">>
    /\ exit_code = 255
    /\ loc.ret = 1

\* a word strtol reads entirely as a number: blanks, then a decimal integer
Numeric(s) ==
    \E i \in 0 .. Len(s) :
        /\ \A j \in 1 .. i : s[j] = " "
        /\ IsDecimal(SubSeq(s, i + 1, Len(s)))

\* C14 as stated: `exit` with a non-numeric argument reports
\* "<arg>: numeric argument required" and sets last_exit_code to 2; `exit`
\* with more than one argument reports an error and sets last_exit_code
\* to 1; in both cases the shell goes back to the prompt.
C14_ExitErrors ==
    [][ExitStep =>
        /\ (pipeline'.argc = 2 /\ ~Numeric(pipeline'.arg))
           => /\ out' = <<ArgErrLine(pipeline'.arg, "numeric argument required")>>
              /\ exit_code' = 2
              /\ pc' = "prompt"
        /\ pipeline'.argc > 2
           => /\ out' = <<ErrLine("too many arguments")>>
              /\ exit_code' = 1
              /\ pc' = "prompt"]_vars

\* C14, amended: `exit` with a non-numeric argument reports
\* "<arg>: numeric argument required" and sets last_exit_code to 2, unless
\* the buffer for that message cannot be allocated, in which case it
\* reports the malloc failure and sets last_exit_code to 1; `exit` with
\* more than one argument reports an error and sets last_exit_code to 1;
\* in all these cases the shell goes back to the prompt.
C14_ExitErrorsUnlessNoMemory ==
    [][ExitStep =>
        /\ (pipeline'.argc = 2 /\ ~Numeric(pipeline'.arg))
           => /\ \/ /\ out' = <<ArgErrLine(pipeline'.arg, "numeric argument required")>>
                    /\ exit_code' = 2
                 \/ /\ out' = <<ErrLine("malloc")>>
                    /\ exit_code' = 1
              /\ pc' = "prompt"
        /\ pipeline'.argc > 2
           => /\ out' = <<ErrLine("too many arguments")>>
              /\ exit_code' = 1
              /\ pc' = "prompt"]_vars

\* `exit a` has been refused with the message and last_exit_code 2, and
\* the shell prompts again
C14_Witness ==
    /\ pc = "prompt"
    /\ pipeline.head = "exit" /\ pipeline.argc = 2 /\ pipeline.arg = <<"a">>
    /\ out = <<ArgErrLine(<<"a">>, "numeric argument required")>>
    /\ exit_code = 2
    /\ loc.ret = 0

\* the step on which execute_pipeline runs the cd builtin in the shell
CdStep ==
    /\ pc = "dispatch" /\ pc' \in {"prompt", "exited"}
    /\ pipeline'.head = "cd"

\* cd printed no diagnostic on that step
CdReportsNoError == \A i \in 1 .. Len(out') : out'[i].k = "puts"

\* C20: after a successful cd (no argument, `-`, or a path) PWD is the
\* working directory the shell now has, OLDPWD is the working directory it
\* had immediately before, and last_exit_code is 0.
C20_CdSetsPwdAndOldpwd ==
    [][(CdStep /\ CdReportsNoError)
       => /\ sh'.PWD = sh'.cwd
          /\ sh'.OLDPWD = sh.cwd
          /\ sh'.cwd = realpath(sh.cwd,
                                IF pipeline'.argc = 1 THEN sh.HOME
                                ELSE IF pipeline'.arg = <<"-">> THEN sh.OLDPWD
                                ELSE pipeline'.arg)
          /\ exit_code' = 0
          /\ pc' = "prompt"]_vars

\* `cd /l`, a symbolic link to /d, has succeeded from /h
C20_Witness ==
    /\ pc = "prompt"
    /\ pipeline.head = "cd" /\ pipeline.argc = 2 /\ pipeline.arg = LinkL
    /\ out = <<>>
    /\ sh.cwd = DirD /\ sh.PWD = DirD /\ sh.OLDPWD = Home
    /\ exit_code = 0

\* the line is one bare word: ordinary characters only
OneWord(l) == Len(l) >= 1 /\ \A n \in 1 .. Len(l) : l[n] = "a"

\* C15: a word of exactly TOKEN_BUFFER_SIZE - 1 characters (4095 in the
\* source), and any shorter one, is accepted by the tokenizer as one WORD;
\* a longer word is an ERROR and the line yields no pipeline.
C15_WordLengthLimit ==
    (parsed.done /\ OneWord(line))
    => IF Len(line) <= TOKEN_BUFFER_SIZE - 1
       THEN /\ parsed.cmd.ok
            /\ Len(parsed.cmd.cmds) = 1
            /\ parsed.cmd.cmds[1].argv = <<line>>
       ELSE ~parsed.cmd.ok

\* the first character of the line that is not white space (NUL: none)
RECURSIVE FirstNonSpace(_)
FirstNonSpace(l) ==
    IF l = <<>> THEN NUL
    ELSE IF IsSpace(l[1]) THEN FirstNonSpace(Tail(l))
    ELSE l[1]

\* two `|` with nothing but white space between them
EmptyStage(l) ==
    \E i, j \in 1 .. Len(l) :
        /\ i < j /\ l[i] = "|" /\ l[j] = "|"
        /\ \A n \in (i + 1) .. (j - 1) : IsSpace(l[n])

\* C17: every stage of a pipeline parser_parse returns has at least one
\* word in argv; a line (without quotes) that starts a stage with `|`,
\* that ends after a `|`, or that holds only a redirection yields no
\* pipeline.
C17_NoEmptyStage ==
    parsed.done
    => /\ parsed.cmd.ok
          => \A n \in 1 .. Len(parsed.cmd.cmds) :
                /\ parsed.cmd.cmds[n].argc >= 1
                /\ Len(parsed.cmd.cmds[n].argv) = parsed.cmd.cmds[n].argc
       /\ (/\ ~Contains(line, "'")
           /\ \/ FirstNonSpace(line) = "|"
              \/ LastNonSpace(line) = "|"
              \/ EmptyStage(line)
              \/ line \in {<<">", "a">>, <<">", " ", "a">>, <<">", ">", "a">>,
                           <<"a", "|", ">", "a">>})
          => ~parsed.cmd.ok

\* the line `a|a` has been parsed into two stages of one word each
C17_Witness ==
    /\ parsed.done /\ parsed.cmd.ok
    /\ line = <<"a", "|", "a">>
    /\ Len(parsed.cmd.cmds) = 2
    /\ parsed.cmd.cmds[1].argv = <<(<<"a">>)>>
    /\ parsed.cmd.cmds[2].argv = <<(<<"a">>)>>

\* two pipelines are equivalent: as many stages, the same argv, redirection
\* targets and append flags in every stage, the same background flag
Equivalent(P, Q) ==
    /\ Len(P) = Len(Q)
    /\ \A n \in 1 .. Len(P) :
          /\ P[n].argv = Q[n].argv
          /\ P[n].redirect = Q[n].redirect
          /\ P[n].append = Q[n].append
    /\ P[1].background = Q[1].background

\* C16: for every pipeline P the parser returns, parsing format_cmdline(P)
\* again yields a pipeline equivalent to P (for at least one value of the
\* fields the parser leaves indeterminate).
C16_FormatParseRoundTrip ==
    (parsed.done /\ parsed.cmd.ok)
    => \E bgs \in [1 .. MaxCmds -> BOOLEAN] :
          LET again == parser_parse(format_cmdline(parsed.cmd.cmds), bgs)
          IN  again.ok /\ Equivalent(parsed.cmd.cmds, again.cmds)

\* the step on which builtin_fg or builtin_bg resolves its job spec
JobSpecStep ==
    /\ pc = "dispatch" /\ pc' # "dispatch"
    /\ pipeline'.head \in {"fg", "bg"}

\* one or more decimal digits and nothing else
IsDigits(s) == Len(s) >= 1 /\ \A i \in 1 .. Len(s) : IsDigit(s[i])

\* the jid the claim gives for a job spec, 0 when it rejects the argument
ClaimedJid(hasarg, s) ==
    LET num == IF Len(s) >= 1 /\ s[1] = "%" THEN Tail(s) ELSE s
    IN  IF ~hasarg \/ s = <<"%", "%">> \/ s = <<"%", "+">> THEN current_jid
        ELSE IF s = <<"%", "-">> THEN previous_jid
        ELSE IF IsDigits(num) THEN PlaceValue(num)
        ELSE 0

\* a number written with a plus sign, which the claim does not speak of
PlusSigned(s) ==
    LET num == IF Len(s) >= 1 /\ s[1] = "%" THEN Tail(s) ELSE s
    IN  Len(num) >= 2 /\ num[1] = "+" /\ IsDigits(Tail(num))

\* C18: fg and bg take a missing argument, `%%` and `%+` as the current
\* job, `%-` as the previous job, and digits with or without a leading `%`
\* as that jid; every other word, and a jid no job has, is answered with
\* "no such job", last_exit_code 1 and an unchanged table.
C18_JobSpecResolution ==
    [][(JobSpecStep /\ ~PlusSigned(pipeline'.arg))
       => LET jid == ClaimedJid(pipeline'.argc >= 2, pipeline'.arg)
          IN  IF jid > 0 /\ \E i \in Slots : jobs[i].used = 1 /\ jobs[i].jid = jid
              THEN /\ pc' \in {"fg_kill", "bg_kill"}
                   /\ jobs[loc'.job].jid = jid
                   /\ current_jid' = jid
              ELSE /\ pc' = "prompt"
                   /\ out' = <<ErrLine("no such job")>>
                   /\ exit_code' = 1
                   /\ UNCHANGED jobvars]_vars

\* the step on which execute_pipeline runs the jobs builtin in the shell
JobsStep ==
    /\ pc = "dispatch" /\ pc' = "prompt"
    /\ pipeline'.head = "jobs"

\* C19: `jobs` prints one line for every used entry of the table and no
\* other line, in increasing jid order, each with the entry's state and
\* mark; it sets last_exit_code to 0 and changes nothing in the table:
\* no entry is removed, no notified flag, state or mark changes.
C19_JobsListsTable ==
    [][JobsStep
       => /\ Len(out') = Cardinality(UsedSlots(jobs))
          /\ \A i \in UsedSlots(jobs) :
                \E n \in 1 .. Len(out') : out'[n] = JobLine("jobs", Table, i)
          /\ \A n, m \in 1 .. Len(out') : n < m => out'[n].jid < out'[m].jid
          /\ exit_code' = 0
          /\ UNCHANGED jobvars]_vars

\* `jobs` has listed two jobs, one of them Done, and the Done job is still
\* in the table with its notified flag clear
C19_Witness ==
    /\ pc = "prompt" /\ pipeline.head = "jobs"
    /\ Len(out) = 2 /\ out[1].k = "jobs"
    /\ \E i \in UsedSlots(jobs) :
          /\ jobs[i].state = JOB_DONE /\ jobs[i].notified = 0
          /\ \E n \in 1 .. 2 : out[n].jid = jobs[i].jid /\ out[n].st = JOB_DONE

(* ---- a forked stage: execute_child (pipeline.c) ------------------------ *)
\* what can happen to a stage between fork and execve:
\*   fail : the first call that fails, if the child gets to it: dup2 on a
\*          pipe end, open or dup2 of a file redirection, get_path, execve
\*   builtin_ret : the result of builtin_exec (1: not a builtin it runs)
\*   ec : exit_code in the child after builtin_exec
ChildFates ==
    [fail : {"none", "pipe_dup2", "open", "dup2", "get_path", "execve"},
     builtin_ret : {-1, 0, 1, 2}, ec : {3}]

\* the wait status of a child that called _exit(code)
W_EXITCODE(code) == (code % 256) * 256

setup_redirects(f) == IF f.fail \in {"open", "dup2"} THEN -1 ELSE 0

\* a variant that exchanges the codes of the two last failures
execute_child_codes_swapped(f) ==
    IF f.fail = "pipe_dup2" THEN 1
    ELSE IF setup_redirects(f) = -1 THEN 1
    ELSE IF f.builtin_ret # 1
    THEN (IF f.builtin_ret = 2 THEN f.ec ELSE IF f.builtin_ret = 0 THEN 0 ELSE 1)
    ELSE IF f.fail = "get_path" THEN 126
    ELSE IF f.fail = "execve" THEN 127
    ELSE NULL

\* the code with which execute_child calls _exit, NULL when execve replaces
\* the child with the program
execute_child(f) ==
    IF f.fail = "pipe_dup2" THEN 1
    ELSE IF setup_redirects(f) = -1 THEN 1
    ELSE IF f.builtin_ret # 1
    THEN (IF f.builtin_ret = 2 THEN f.ec ELSE IF f.builtin_ret = 0 THEN 0 ELSE 1)
    ELSE IF f.fail = "get_path" THEN 127
    ELSE IF f.fail = "execve" THEN 126
    ELSE NULL

\* the child p runs execute_child and does not reach the program
ChildRun(p, f) ==
    /\ procs[p].st = "run"
    /\ execute_child(f) # NULL
    /\ ChildExit(p, W_EXITCODE(execute_child(f)))

\* pipelines of external commands and builtins whose stages can fail before
\* execve
NextChild ==
    \/ Execute
    \/ \E cmd \in ExtCmds : Launch(cmd)
    \/ ForkStage
    \/ JobAdd
    \/ WfTest
    \/ Finalize
    \/ NotifyEnd
    \/ \E p \in Pids : Reap(p)
    \/ \E p \in Pids, f \in ChildFates : ChildRun(p, f)

SpecChild == Init /\ [][NextChild]_vars

\* after the step the child p is a zombie with exit code c, or the handler
\* has already collected it (and recorded c if p is its job's last stage)
ExitedWith(p, c) ==
    \/ /\ procs'[p].st = "zombie"
       /\ WIFEXITED(procs'[p].status) /\ WEXITSTATUS(procs'[p].status) = c
    \/ /\ ~sigblocked /\ procs'[p] = NoProc
       /\ LET j == job_by_pid(jobs, p)
          IN  (j # NULL /\ p = jobs[j].last_pid)
              => /\ jobs'[j].last_status_valid = 1
                 /\ WIFEXITED(jobs'[j].last_status)
                 /\ WEXITSTATUS(jobs'[j].last_status) = c

\* C21: inside a forked stage a failed redirection (open or dup2) ends the
\* child with exit code 1, a command that cannot be resolved ends it with
\* 127, and a resolved command whose execve fails ends it with 126; the
\* failure ends only that child: no other child changes, and the shell goes
\* on in its fork loop with the stages it has still to fork.
C21_ChildFailureCodes ==
    [][\A p \in Pids, f \in ChildFates :
          (procs[p].st = "run" /\ procs'[p].st # "run" /\ ChildRun(p, f))
          => /\ f.fail \in {"pipe_dup2", "open", "dup2"} => ExitedWith(p, 1)
             /\ (f.fail = "get_path" /\ f.builtin_ret = 1) => ExitedWith(p, 127)
             /\ (f.fail = "execve" /\ f.builtin_ret = 1) => ExitedWith(p, 126)
             /\ \A q \in Pids \ {p} : procs'[q] = procs[q]
             /\ pc = "fork"
                => /\ pc' = "fork" /\ loc'.i = loc.i /\ loc'.pids = loc.pids
                   /\ pipeline' = pipeline]_vars

\* the first stage of a two-stage pipeline has ended with 127 while the
\* second stage, forked after that, runs
C21_Witness ==
    /\ pc = "fork" /\ pipeline.n = 2 /\ loc.i = 2
    /\ procs[loc.pids[1]].st = "zombie"
    /\ procs[loc.pids[1]].status = W_EXITCODE(127)
    /\ procs[loc.pids[2]].st = "run"

\* the pids execute_pipeline has forked so far for the pipeline it is on
Forked == {loc.pids[k] : k \in 1 .. Len(loc.pids)}

\* on this step the handler collects a status change of the child p: the
\* child table changes for p and no status of p is left to collect, and the
\* step is neither the fork of p nor the main line's own waitpid(pids[k])
ReaperCollects(p) ==
    /\ procs[p].st # "free"
    /\ procs'[p] # procs[p]
    /\ procs'[p].st # "zombie" /\ procs'[p].pend = "none"
    /\ ~(pc = "fatal" /\ pc' = "fatal" /\ loc'.k # loc.k)

\* C22: SIGCHLD is blocked all through the fork loop, up to job_add, so the
\* reaper collects no child of a pipeline before the pipeline's Job is in
\* the table: every status change it collects of a child of a registered
\* pipeline finds the owning Job, with the pids and last_pid stored.  (A
\* pipeline that never gets a Job, on the fatal paths, is not registered.)
C22_NoReapBeforeRegistration ==
    [][/\ pc = "fork" => sigblocked
       /\ \A p \in Pids :
             ReaperCollects(p)
             => /\ ~sigblocked
                /\ ~(pc = "fork" /\ p \in Forked)
                /\ \/ pc = "fatal" /\ p \in Forked
                   \/ LET j == job_by_pid(jobs, p)
                      IN  /\ j # NULL
                          /\ \E k \in 1 .. jobs[j].nprocs :
                                jobs[j].pids[k] = jobs[j].last_pid]_vars

\* the only stage of a foreground pipeline has exited inside the fork loop
\* or right after it, and the reaper found its Job: the job is Done before
\* wait_foreground has tested it
C22_Witness ==
    /\ pc = "wf_enter" /\ loc.caller = "exec"
    /\ jobs[loc.job].used = 1 /\ jobs[loc.job].state = JOB_DONE
    /\ jobs[loc.job].alive = 0 /\ jobs[loc.job].last_status_valid = 1
    /\ procs[jobs[loc.job].last_pid].st = "free"

(* ---- foreground waits, with the scheduling the shell can rely on ------ *)
\* one external command, in the foreground or the background, and `fg`
WaitCmds == {cmd \in Cmds : \/ cmd.head = "ext" /\ cmd.n = 1
                            \/ cmd.head = "fg" /\ cmd.argc = 1}

NextWait ==
    \/ Execute
    \/ \E cmd \in WaitCmds : Launch(cmd)
    \/ ForkStage
    \/ JobAdd
    \/ \E cmd \in WaitCmds : BuiltinFgBg(cmd)
    \/ FgKill
    \/ WfTest
    \/ Finalize
    \/ NotifyEnd
    \/ \E p \in Pids : Reap(p)
    \/ \E p \in Pids, s \in ChildStatuses : ChildExit(p, s)
    \/ \E p \in Pids : ChildStop(p)

\* The main line, once inside execute_pipeline or builtin_fg, goes on to its
\* next statement, and the kernel delivers a pending SIGCHLD that is not
\* blocked.  Nothing obliges the user to type a line or a child to change
\* state.
SpecWait ==
    /\ Init /\ [][NextWait]_vars
    /\ WF_vars(ForkStage \/ JobAdd \/ FgKill \/ WfTest \/ Finalize \/ NotifyEnd)
    /\ WF_vars(\E p \in Pids : Reap(p))

\* the shell is in wait_foreground
Waiting == pc \in {"wf_enter", "wf_suspend"}

\* every process of the waited job has exited or is stopped
Settled ==
    \A k \in 1 .. Len(jobs[loc.job].pids) : procs[jobs[loc.job].pids[k]].st # "run"

\* C23: a foreground wait (from execute_pipeline or from fg) returns once
\* every process of the waited job has exited or stopped, under every
\* interleaving of SIGCHLD delivery with the main line, a status change
\* reaped just before the wait begins or just before fg marks the job
\* Running included.
C23_WaitReturns == (Waiting /\ Settled) ~> ~Waiting

(* ---- the main line statement by statement around its mask changes ------ *)
\* The regions of the main line that write the job table, with
\* sigchld_block and sigchld_restore as steps of their own, in the order of
\* the source.  A label is a place of the main line; op is the statement
\* there and next the label that follows it.
\*   prompt             main_loop has a line; execute_pipeline begins
\*   n_block .. n_restore   pipeline_notify_jobs called at pipeline.c:905
\*   f_block .. f_restore   builtin_fg 630-646, builtin_bg 692-707
\*   f_fail                 their `if (!j)` branch, 632-637 and 694-699
\*   finalize .. z_restore  after wait_foreground: 656-672 and 1033-1048
\*   e_block .. e_restore   pipeline_notify_jobs called at 674 and 1051
Code ==
    [prompt    |-> [op |-> "read",     next |-> "n_block"],
     n_block   |-> [op |-> "block",    next |-> "n_loop"],
     n_loop    |-> [op |-> "notify",   next |-> "n_restore"],
     n_restore |-> [op |-> "restore",  next |-> "dispatch"],
     f_block   |-> [op |-> "block",    next |-> "f_mark"],
     f_mark    |-> [op |-> "mark",     next |-> "f_restore"],
     f_fail    |-> [op |-> "fail",     next |-> "prompt"],
     f_restore |-> [op |-> "restore",  next |-> "kill"],
     finalize  |-> [op |-> "tty_back", next |-> "z_block"],
     z_block   |-> [op |-> "block",    next |-> "z_final"],
     z_final   |-> [op |-> "finalize", next |-> "z_restore"],
     z_restore |-> [op |-> "restore",  next |-> "e_block"],
     e_block   |-> [op |-> "block",    next |-> "e_loop"],
     e_loop    |-> [op |-> "notify",   next |-> "e_restore"],
     e_restore |-> [op |-> "return",   next |-> "prompt"]]

\* a variant of sigchld_block that leaves the mask as it is
sigchld_block_noop(blocked) == blocked

\* a variant of sigchld_restore that leaves SIGCHLD blocked
sigchld_restore_blocked(prev) == TRUE

\* whether SIGCHLD is blocked after sigchld_block / sigchld_restore
sigchld_block(blocked) == TRUE
sigchld_restore(prev) == prev

\* the statement at the label pc
Step ==
    /\ pc \in DOMAIN Code
    /\ MayRun
    /\ LET s == Code[pc]
       IN  CASE s.op = "read" ->
                  /\ sh.HOME # <<"nul">>
                  /\ pipeline' = NoCmd /\ loc' = NoLoc /\ out' = <<>>
                  /\ pc' = s.next
                  /\ UNCHANGED <<jobs, current_jid, previous_jid, next_seq, exit_code,
                                 sigblocked, tty_pgrp, procs>>
             [] s.op = "block" ->
                  /\ sigblocked' = sigchld_block(sigblocked)
                  /\ pc' = s.next
                  /\ UNCHANGED <<jobs, current_jid, previous_jid, next_seq, exit_code,
                                 tty_pgrp, procs, pipeline, loc, out>>
             [] s.op = "restore" ->
                  /\ sigblocked' = sigchld_restore(FALSE)
                  /\ pc' = IF s.next # "kill" THEN s.next
                           ELSE IF pipeline.head = "fg" THEN "fg_kill" ELSE "bg_kill"
                  /\ UNCHANGED <<jobs, current_jid, previous_jid, next_seq, exit_code,
                                 tty_pgrp, procs, pipeline, loc, out>>
             [] s.op = "notify" ->
                  /\ LET r == pipeline_notify_jobs(Table, <<>>)
                     IN  SetTable(r.t) /\ out' = r.o
                  /\ pc' = s.next
                  /\ UNCHANGED <<exit_code, sigblocked, tty_pgrp, procs, pipeline, loc>>
             [] s.op = "mark" ->
                  /\ LET r == resolve_job(Table, pipeline)
                     IN  IF r.j = NULL
                         THEN pc' = "f_fail" /\ UNCHANGED <<jobvars, loc>>
                         ELSE /\ SetTable(r.t)
                              /\ loc' = [loc EXCEPT !.job = r.j]
                              /\ pc' = s.next
                  /\ UNCHANGED <<exit_code, sigblocked, tty_pgrp, procs, pipeline, out>>
             [] s.op = "fail" ->
                  /\ sigblocked' = sigchld_restore(FALSE)
                  /\ out' = <<ErrLine("no such job")>>
                  /\ exit_code' = 1
                  /\ Return(0)
                  /\ UNCHANGED <<jobs, current_jid, previous_jid, next_seq, tty_pgrp,
                                 procs, pipeline>>
             [] s.op = "tty_back" ->
                  /\ tty_pgrp' = IF interactive THEN ShellPgid ELSE tty_pgrp
                  /\ pc' = s.next
                  /\ UNCHANGED <<jobs, current_jid, previous_jid, next_seq, exit_code,
                                 sigblocked, procs, pipeline, loc, out>>
             [] s.op = "finalize" ->
                  /\ LET r == finalize(Table, loc.job, loc.caller, exit_code)
                     IN  SetTable(r.t) /\ exit_code' = r.ec
                  /\ pc' = s.next
                  /\ UNCHANGED <<sigblocked, tty_pgrp, procs, pipeline, loc, out>>
             [] s.op = "return" ->
                  /\ sigblocked' = sigchld_restore(FALSE)
                  /\ Return(0)
                  /\ UNCHANGED <<jobs, current_jid, previous_jid, next_seq, exit_code,
                                 tty_pgrp, procs, pipeline, out>>
    /\ UNCHANGED <<interactive, line, parsed, sh>>

\* builtin_fg / builtin_bg before they block SIGCHLD: parse_job_spec and the
\* `jid <= 0` return (pipeline.c:622-627, 685-690)
FgBgSpec(cmd) ==
    /\ pc = "dispatch"
    /\ MayRun
    /\ ParentBuiltin(cmd) /\ cmd.head \in {"fg", "bg"}
    /\ pipeline' = cmd
    /\ IF parse_job_spec(Table, cmd.argc >= 2, cmd.arg) <= 0
       THEN /\ out' = <<ErrLine("no such job")>>
            /\ exit_code' = 1
            /\ Return(0)
       ELSE /\ out' = <<>>
            /\ pc' = "f_block"
            /\ UNCHANGED <<exit_code, loc>>
    /\ UNCHANGED <<jobs, current_jid, previous_jid, next_seq, sigblocked, tty_pgrp,
                   interactive, procs, line, parsed, sh>>

\* single commands without redirections
MaskCmds == {cmd \in Cmds : cmd.n = 1 /\ ~cmd.redir}

NextMask ==
    \/ Step
    \/ \E cmd \in MaskCmds : FgBgSpec(cmd)
    \/ \E cmd \in MaskCmds : BuiltinJobs(cmd)
    \/ \E cmd \in MaskCmds : Launch(cmd)
    \/ ForkStage
    \/ JobAdd
    \/ FgKill
    \/ BgKill
    \/ WfTest
    \/ FatalWait
    \/ FatalReturn
    \/ \E p \in Pids : Reap(p)
    \/ \E p \in Pids, s \in ChildStatuses : ChildExit(p, s)
    \/ \E p \in Pids : ChildStop(p)
    \/ \E p \in Pids : ChildCont(p)

SpecMask == Init /\ [][NextMask]_vars

\* a step of the main line that writes the job table or current, previous,
\* next_seq (a step of the reaper changes the child table as well)
MainLineWrite == jobvars' # jobvars /\ procs' = procs

\* C24: every main-line write to the job table or to current, previous and
\* next_seq (job_add, job_remove, the updates of fg and bg, of the
\* notification pass and of the foreground finalisation) happens while
\* SIGCHLD is blocked, and the reaper takes no step while it is.
C24_WritesUnderBlockedSigchld ==
    [][/\ MainLineWrite => sigblocked
       /\ (jobvars' # jobvars /\ procs' # procs) => ~sigblocked]_vars

\* the notification pass has reported a job (and updated the table) with
\* SIGCHLD blocked, while a child has terminated and waits to be collected
C24_Witness ==
    /\ pc \in {"n_restore", "e_restore"} /\ sigblocked
    /\ Len(out) >= 1
    /\ \E p \in Pids : procs[p].st = "zombie"

\* the step on which pipeline_notify_jobs runs: at the entry of
\* execute_pipeline and before the return of a foreground wait
PassStep ==
    \/ pc = "prompt" /\ pc' = "dispatch"
    \/ pc = "notify_end" /\ pc' = "prompt"

\* the used jobs that are Stopped or Done with notified false
Reportable(js) ==
    {i \in Slots : /\ js[i].used = 1 /\ js[i].notified = 0
                   /\ js[i].state \in {JOB_STOPPED, JOB_DONE}}

\* C25: a notification pass reports exactly the used jobs that are Stopped
\* or Done with notified false, each once; it sets notified on a reported
\* Stopped job and removes every reported Done job; Running jobs and
\* already-notified jobs are neither reported nor changed; and a job that
\* became Done in the background (all its processes were collected: alive
\* is 0) is reported as Done, and gone from the table, on the first pass
\* that follows.
C25_NotificationPass ==
    [][PassStep
       => /\ Len(out') = Cardinality(Reportable(jobs))
          /\ \A i \in Reportable(jobs) :
                \E n \in 1 .. Len(out') :
                    /\ out'[n].k = "notify"
                    /\ out'[n].jid = jobs[i].jid /\ out'[n].st = jobs[i].state
          /\ \A i \in Slots :
                jobs'[i] = IF i \notin Reportable(jobs) THEN jobs[i]
                           ELSE IF jobs[i].state = JOB_STOPPED
                           THEN [jobs[i] EXCEPT !.notified = 1]
                           ELSE ZeroJob
          /\ \A i \in Slots :
                (jobs[i].used = 1 /\ jobs[i].alive = 0)
                => (i \in Reportable(jobs) /\ jobs[i].state = JOB_DONE)]_vars

\* errno after jobs_sigchld_reap, entered with errno = e: the waitpid that
\* ends the loop fails with ECHILD or returns 0 (w is what it leaves in
\* errno), and the saved value is put back
jobs_sigchld_reap_errno(e, w) ==
    LET saved_errno == e
        after_loop == w
    IN  saved_errno

\* a job entry without the fields the reaper may write
ReaperFrame(j) ==
    [j EXCEPT !.state = 0, !.notified = 0, !.alive = 0, !.last_status = 0,
              !.last_status_valid = 0]

ResolvedStep == pc = "dispatch" /\ pc' \in {"fg_kill", "bg_kill"}

\* the step on which they send SIGCONT to the job's process group
KillStep == pc \in {"fg_kill", "bg_kill"} /\ pc' \notin {"fg_kill", "bg_kill"}

\* C27: after fg or bg resolves to job J, J is the current job and the job
\* that was current immediately before is the previous job; J's state is
\* Running and its notified flag is false; and a continue signal is then
\* sent to J's process group (every stopped process of the group
\* continues), J still being the current job.
C27_FgBgMakeCurrent ==
    [][/\ ResolvedStep
          => LET J == jobs'[loc'.job]
             IN  /\ J.used = 1
                 /\ current_jid' = J.jid
                 /\ previous_jid' = current_jid
                 /\ J.state = JOB_RUNNING /\ J.notified = 0
       /\ KillStep
          => /\ current_jid' = jobs[loc.job].jid
             /\ \A p \in Pids :
                   (procs[p].pgrp = jobs[loc.job].pgid /\ procs[p].st = "stop")
                   => (procs'[p].st = "run" /\ procs'[p].pend = "continued")]_vars

\* bg has resumed a stopped job that was not the current one: it is now
\* current, the old current job is previous, and its process has been
\* continued
C27_Witness ==
    /\ pc = "prompt" /\ pipeline.head = "bg"
    /\ Len(out) = 1 /\ out[1].k = "bg"
    /\ current_jid = out[1].jid
    /\ previous_jid \notin {0, current_jid}
    /\ \E p \in Pids : procs[p].pgrp = out[1].pgid /\ procs[p].pend = "continued"

\* the slot of the used job with the largest seq among the slots S
NewestIn(js, S) == CHOOSE i \in S : \A k \in S : js[k].seq <= js[i].seq

\* the step holds a job_add that stored a job, or a job_remove
JobAddStep == pc = "fork" /\ pc' \notin {"fork", "fatal"}
JobRemoveStep == \E i \in Slots : jobs[i].used = 1 /\ jobs'[i].used = 0

NamesNoJob(hasarg, s) ==
    LET jid == ClaimedJid(hasarg, s)
    IN  jid <= 0 \/ ~\E i \in Slots : jobs[i].used = 1 /\ jobs[i].jid = jid

\* C29: when fg or bg is given a job spec that resolves to no job in the
\* table (no current or previous job, a jid not in use, or a malformed
\* spec), it reports "no such job", sets last_exit_code to 1, sends no
\* signal, does not touch the terminal and leaves every table entry and the
\* current/previous marks unchanged.
C29_NoSuchJob ==
    [][(JobSpecStep /\ ~PlusSigned(pipeline'.arg)
        /\ NamesNoJob(pipeline'.argc >= 2, pipeline'.arg))
       => /\ out' = <<ErrLine("no such job")>>
          /\ exit_code' = 1
          /\ pc' = "prompt"
          /\ procs' = procs
          /\ tty_pgrp' = tty_pgrp
          /\ UNCHANGED jobvars]_vars

(* ---- the pipe descriptors of execute_pipeline ------------------------- *)
\* The longest pipeline launched in this part: it stands for MAX_PROCS (64
\* in the source), the stage count up to which execute_pipeline reaches its
\* fork loop.
MaxStages == 5

\* The locals of execute_pipeline that matter to its descriptors:
\*   n : cmd_count;  i : the loop index;  prev_fd, pipe_fd : as in the source
\*   open : the pipe descriptors open in the parent
\*   made : the number of pipe() calls that succeeded
\*   ebadf : the number of close() calls on a descriptor that is not open
\*   path : how the function ends ("ok", "pipe", "fork", "full")
FdLocals(n) ==
    [n |-> n, i |-> 0, prev_fd |-> -1, pipe_fd |-> <<-1, -1>>, open |-> {},
     made |-> 0, ebadf |-> 0, path |-> "ok"]

\* close(fd) in the parent
close(l, fd) ==
    IF fd \in l.open THEN [l EXCEPT !.open = @ \ {fd}]
    ELSE [l EXCEPT !.ebadf = @ + 1]

\* pipe(pipe_fd): the two lowest descriptors that are not open (0, 1 and 2
\* are the shell's own)
pipe(l) ==
    LET free == (3 .. (2 * MaxStages + 4)) \ l.open
        r == CHOOSE x \in free : \A y \in free : x <= y
        w == CHOOSE x \in free \ {r} : \A y \in free \ {r} : x <= y
    IN  [l EXCEPT !.pipe_fd = <<r, w>>, !.open = @ \cup {r, w}, !.made = @ + 1]

\* a variant of the cleanup that closes nothing
fatal_cleanup_none(l) == l

\* fatal_unblocked: if (prev_fd != -1) close(prev_fd)
fatal_cleanup(l) == IF l.prev_fd # -1 THEN close(l, l.prev_fd) ELSE l

\* execute_pipeline is called with n stages and reaches its fork loop
FdLaunch(n) ==
    /\ pc = "prompt"
    /\ n <= MaxStages
    /\ loc' = FdLocals(n)
    /\ pc' = "fd_pipe"
    /\ out' = <<>>
    /\ UNCHANGED <<jobs, current_jid, previous_jid, next_seq, exit_code, sigblocked,
                   tty_pgrp, interactive, procs, pipeline, line, parsed, sh>>

\* the head of one iteration: pipe() unless this is the last stage
FdPipe(ok) ==
    /\ pc = "fd_pipe"
    /\ IF loc.i < loc.n - 1
       THEN IF ok
            THEN loc' = pipe(loc) /\ pc' = "fd_fork" /\ UNCHANGED out
            ELSE /\ loc' = [loc EXCEPT !.path = "pipe"]
                 /\ out' = <<ErrLine("pipe")>>
                 /\ pc' = "fd_fatal"
       ELSE ok /\ pc' = "fd_fork" /\ UNCHANGED <<loc, out>>
    /\ UNCHANGED <<jobs, current_jid, previous_jid, next_seq, exit_code, sigblocked,
                   tty_pgrp, interactive, procs, pipeline, line, parsed, sh>>

\* fork() and what the parent does after it (pipeline.c:963-1010)
FdFork(ok) ==
    /\ pc = "fd_fork"
    /\ IF ~ok
       THEN /\ loc' = [(IF loc.i < loc.n - 1
                        THEN close(close(loc, loc.pipe_fd[1]), loc.pipe_fd[2])
                        ELSE loc) EXCEPT !.path = "fork"]
            /\ out' = <<ErrLine("fork")>>
            /\ pc' = "fd_fatal"
       ELSE LET l1 == IF loc.prev_fd # -1 THEN close(loc, loc.prev_fd) ELSE loc
                l2 == IF loc.i < loc.n - 1
                      THEN [close(l1, loc.pipe_fd[2]) EXCEPT !.prev_fd = loc.pipe_fd[1]]
                      ELSE l1
            IN  /\ loc' = [l2 EXCEPT !.i = loc.i + 1]
                /\ pc' = IF loc.i + 1 < loc.n THEN "fd_pipe" ELSE "fd_add"
                /\ UNCHANGED out
    /\ UNCHANGED <<jobs, current_jid, previous_jid, next_seq, exit_code, sigblocked,
                   tty_pgrp, interactive, procs, pipeline, line, parsed, sh>>

\* job_add: with a free slot the function goes on and returns 0 without
\* touching a descriptor again; with the table full it goes to
\* fatal_unblocked
FdJobAdd(ok) ==
    /\ pc = "fd_add"
    /\ IF ok
       THEN pc' = "prompt" /\ UNCHANGED <<loc, out, exit_code>>
       ELSE /\ loc' = [loc EXCEPT !.path = "full"]
            /\ out' = <<ErrLine("too many jobs")>>
            /\ exit_code' = 1
            /\ pc' = "fd_fatal"
    /\ UNCHANGED <<jobs, current_jid, previous_jid, next_seq, sigblocked, tty_pgrp,
                   interactive, procs, pipeline, line, parsed, sh>>

\* fatal_unblocked: the cleanup, then return -1 (main_loop leaves its loop)
FdFatal ==
    /\ pc = "fd_fatal"
    /\ loc' = fatal_cleanup(loc)
    /\ pc' = "exited"
    /\ UNCHANGED <<jobs, current_jid, previous_jid, next_seq, exit_code, sigblocked,
                   tty_pgrp, interactive, procs, pipeline, out, line, parsed, sh>>

NextFd ==
    \/ \E n \in 1 .. MaxStages : FdLaunch(n)
    \/ \E ok \in BOOLEAN : FdPipe(ok)
    \/ \E ok \in BOOLEAN : FdFork(ok)
    \/ \E ok \in BOOLEAN : FdJobAdd(ok)
    \/ FdFatal

SpecFd == Init /\ [][NextFd]_vars

\* execute_pipeline has run its fork loop
FdRun == pc \in {"fd_pipe", "fd_fork", "fd_add", "fd_fatal"}
         \/ (pc \in {"prompt", "exited"} /\ loc # NoLoc)

\* C30: on every return path of execute_pipeline that created pipes
\* (success, pipe failure, fork failure, job table full) every pipe end the
\* parent opened is closed in the parent: the write end right after the
\* fork of the stage that uses it, the read end after the fork of the next
\* stage or in the failure cleanup.  So between two iterations the parent
\* holds the read end of the newest pipe and nothing else, after the last
\* fork it holds nothing, and it returns holding nothing.
C30_PipeEndsClosed ==
    FdRun
    => /\ pc \in {"prompt", "exited"} => loc.open = {}
       /\ pc = "fd_add" => loc.open = {}
       /\ pc = "fd_pipe" => loc.open = (IF loc.i = 0 THEN {} ELSE {loc.prev_fd})
       /\ pc = "fd_fork" =>
             loc.open = (IF loc.i = 0 THEN {} ELSE {loc.prev_fd})
                        \cup (IF loc.i < loc.n - 1
                              THEN {loc.pipe_fd[1], loc.pipe_fd[2]} ELSE {})

\* pipe() failed for the third stage: the read end of the second pipe, still
\* open at that point, was closed by the cleanup before the return
C30_Witness ==
    /\ pc = "exited" /\ loc # NoLoc
    /\ loc.path = "pipe" /\ loc.made = 2 /\ loc.i = 2
    /\ loc.open = {}

(* ---- process groups in the fork loop ---------------------------------- *)
\* After fork() the child runs execute_pipeline with its own copy of the
\* locals: sigchld_restore, setpgid(0, pgid), execute_child.  The parent
\* goes on with setpgid(pid, pgid).  The two calls are steps of their own
\* here, taken in either order; a child may also reach execve, or die, at
\* any point.
\*   n, bg : cmd_count and background;  i, pgid, pids, last_pid : the loop
\*   job : the job_t* job_add returned;  k : the reap loop at fatal_unblocked
\*   err : errno of the parent's latest setpgid
\*   child[p] : the child p's place ("none", "forked", "grouped", "execd")
\*              and the value of pgid it inherited at fork()
PgLocals(n, bg, child) ==
    [n |-> n, bg |-> bg, i |-> 0, pgid |-> 0, pids |-> <<>>, last_pid |-> -1,
     job |-> NULL, k |-> 0, err |-> "none", child |-> child]

NoChild == [at |-> "none", pgid |-> 0]

\* the children's copies that outlive one call of execute_pipeline
Children == IF loc = NoLoc \/ "child" \notin DOMAIN loc
            THEN [p \in Pids |-> NoChild] ELSE loc.child

\* setpgid(pid, pgid) as the kernel decides it (setpgid(2)): ESRCH without
\* such a child, EACCES when the parent calls it on a child that has
\* executed execve, EPERM when pgid names no existing group; a child that
\* has terminated and is not yet waited for is still a child and still a
\* member of its group
setpgid(ps, by_parent, execd, pid, pgid) ==
    IF ps[pid].st = "free" THEN [ps |-> ps, err |-> "ESRCH"]
    ELSE IF by_parent /\ execd THEN [ps |-> ps, err |-> "EACCES"]
    ELSE IF pgid # pid /\ ~(\E q \in Pids : ps[q].st # "free" /\ ps[q].pgrp = pgid)
         THEN [ps |-> ps, err |-> "EPERM"]
    ELSE [ps |-> [ps EXCEPT ![pid].pgrp = pgid], err |-> "none"]

\* a variant in which every child makes a group of its own
child_pgid_own(inherited, pid) == pid

\* the child: if (pgid == 0) pgid = getpid();
child_pgid(inherited, pid) == IF inherited = 0 THEN pid ELSE inherited

\* execute_pipeline up to the fork loop, for a pipeline of n external
\* commands: the notification pass, the length check, sigchld_block
PgLaunch(n, bg) ==
    /\ pc = "prompt"
    /\ MayRun
    /\ ~too_long(n)
    /\ next_seq <= MaxSeq
    /\ LET r == pipeline_notify_jobs(Table, <<>>)
       IN  /\ SetTable(r.t) /\ out' = r.o
           /\ Cardinality({p \in Pids : procs[p].st = "free"
                                        /\ ~Referenced(r.t.jobs, p)}) >= n
    /\ loc' = PgLocals(n, bg, Children)
    /\ sigblocked' = TRUE
    /\ pc' = "pg_fork"
    /\ UNCHANGED <<exit_code, tty_pgrp, interactive, procs, pipeline, line, parsed, sh>>

\* fork(): the child starts in the shell's group with a copy of pgid; the
\* parent stores the pid and sets pgid if this is the first stage
PgFork ==
    /\ pc = "pg_fork"
    /\ loc.i < loc.n
    /\ FreePids # {}
    /\ LET pid == CHOOSE p \in FreePids : \A q \in FreePids : p <= q
       IN  /\ procs' = [procs EXCEPT ![pid] = [st |-> "run", status |-> 0,
                                               pend |-> "none", pgrp |-> ShellPgid]]
           /\ loc' = [loc EXCEPT !.pids = Append(loc.pids, pid),
                                 !.pgid = IF loc.pgid = 0 THEN pid ELSE loc.pgid,
                                 !.child[pid] = [at |-> "forked", pgid |-> loc.pgid]]
    /\ pc' = "pg_setpgid"
    /\ UNCHANGED <<jobs, current_jid, previous_jid, next_seq, exit_code, sigblocked,
                   tty_pgrp, interactive, pipeline, out, line, parsed, sh>>

\* the parent: setpgid(pid, pgid), whose EACCES and ESRCH are ignored,
\* tcsetpgrp for the first stage of a foreground pipeline, last_pid = pid
PgSetpgid ==
    /\ pc = "pg_setpgid"
    /\ LET pid == loc.pids[loc.i + 1]
           r == setpgid(procs, TRUE, loc.child[pid].at = "execd", pid, loc.pgid)
       IN  /\ procs' = r.ps
           /\ out' = IF r.err \in {"none", "EACCES", "ESRCH"} THEN out
                     ELSE Append(out, ErrLine("setpgid"))
           /\ tty_pgrp' = IF ~loc.bg /\ interactive /\ loc.i = 0
                          THEN loc.pgid ELSE tty_pgrp
           /\ loc' = [loc EXCEPT !.i = loc.i + 1, !.last_pid = pid, !.err = r.err]
           /\ pc' = IF loc.i + 1 < loc.n THEN "pg_fork" ELSE "pg_add"
    /\ UNCHANGED <<jobs, current_jid, previous_jid, next_seq, exit_code, sigblocked,
                   interactive, pipeline, line, parsed, sh>>

\* the child: setpgid(0, pgid) with its own copy of pgid
PgChildSetpgid(p) ==
    /\ pc # "exited"
    /\ "child" \in DOMAIN loc
    /\ loc.child[p].at = "forked" /\ procs[p].st = "run"
    /\ procs' = setpgid(procs, FALSE, FALSE, p, child_pgid(loc.child[p].pgid, p)).ps
    /\ loc' = [loc EXCEPT !.child[p].at = "grouped"]
    /\ UNCHANGED <<jobs, current_jid, previous_jid, next_seq, exit_code, sigblocked,
                   tty_pgrp, interactive, pc, pipeline, out, line, parsed, sh>>

\* the child: execute_child reaches execve, which succeeds
PgChildExec(p) ==
    /\ pc # "exited"
    /\ "child" \in DOMAIN loc
    /\ loc.child[p].at = "grouped" /\ procs[p].st = "run"
    /\ loc' = [loc EXCEPT !.child[p].at = "execd"]
    /\ UNCHANGED <<jobs, current_jid, previous_jid, next_seq, exit_code, sigblocked,
                   tty_pgrp, interactive, procs, pc, pipeline, out, line, parsed, sh>>

\* the child terminates, at any place (killed, or _exit in execute_child, or
\* the end of the program); the shell collects it in a later Reap
PgChildExit(p, s) ==
    /\ pc # "exited"
    /\ "child" \in DOMAIN loc
    /\ MayRun
    /\ procs[p].st = "run"
    /\ procs' = [procs EXCEPT ![p].st = "zombie", ![p].status = s]
    /\ UNCHANGED <<jobs, current_jid, previous_jid, next_seq, exit_code, sigblocked,
                   tty_pgrp, interactive, pc, pipeline, loc, out, line, parsed, sh>>

\* pipeline.c:1013-1027: job_add, sigchld_restore, and the three ways on
PgJobAdd ==
    /\ pc = "pg_add"
    /\ LET r == job_add(Table, loc.pgid, loc.pids, loc.n, loc.last_pid)
       IN  /\ SetTable(r.t)
           /\ sigblocked' = FALSE
           /\ loc' = [loc EXCEPT !.job = r.j]
           /\ IF r.j = NULL
              THEN /\ out' = <<ErrLine("too many jobs")>>
                   /\ exit_code' = 1
                   /\ pc' = "pg_fatal"
              ELSE IF loc.bg
              THEN /\ out' = <<JobLine("started", r.t, r.j)>>
                   /\ exit_code' = 0
                   /\ pc' = "prompt"
              ELSE /\ pc' = "pg_wait"
                   /\ UNCHANGED <<out, exit_code>>
    /\ UNCHANGED <<tty_pgrp, interactive, procs, pipeline, line, parsed, sh>>

\* wait_foreground has returned (the job is no longer Running): the
\* terminal goes back to the shell, the job is finalised, the closing
\* notification pass runs, execute_pipeline returns 0
PgWait ==
    /\ pc = "pg_wait"
    /\ MayRun
    /\ ~(jobs[loc.job].used = 1 /\ jobs[loc.job].state = JOB_RUNNING)
    /\ tty_pgrp' = IF interactive THEN ShellPgid ELSE tty_pgrp
    /\ LET f == finalize(Table, loc.job, "exec", exit_code)
           r == pipeline_notify_jobs(f.t, <<>>)
       IN  SetTable(r.t) /\ exit_code' = f.ec /\ out' = r.o
    /\ pc' = "prompt"
    /\ UNCHANGED <<sigblocked, interactive, procs, pipeline, loc, line, parsed, sh>>

\* fatal_unblocked: waitpid(pids[k], &status, 0) for every child started,
\* then return -1
PgFatal ==
    /\ pc = "pg_fatal"
    /\ MayRun
    /\ IF loc.k < loc.i
       THEN LET p == loc.pids[loc.k + 1]
            IN  /\ procs[p].st \in {"zombie", "free"}
                /\ procs' = [procs EXCEPT ![p] = NoProc]
                /\ loc' = [loc EXCEPT !.k = loc.k + 1]
                /\ UNCHANGED pc
       ELSE pc' = "exited" /\ UNCHANGED <<procs, loc>>
    /\ UNCHANGED <<jobs, current_jid, previous_jid, next_seq, exit_code, sigblocked,
                   tty_pgrp, interactive, pipeline, out, line, parsed, sh>>

NextPgid ==
    \/ \E n \in 1 .. MAX_PROCS, bg \in BOOLEAN : PgLaunch(n, bg)
    \/ PgFork
    \/ PgSetpgid
    \/ \E p \in Pids : PgChildSetpgid(p)
    \/ \E p \in Pids : PgChildExec(p)
    \/ \E p \in Pids, s \in ChildStatuses : PgChildExit(p, s)
    \/ PgJobAdd
    \/ PgWait
    \/ PgFatal
    \/ \E p \in Pids : Reap(p)

SpecPgid == Init /\ [][NextPgid]_vars

\* the stages of the pipeline being launched whose group has been set: by
\* the parent's setpgid (its iteration is over) or by the child's own
PgSet ==
    {k \in 1 .. Len(loc.pids) :
        \/ k <= loc.i
        \/ loc.child[loc.pids[k]].at \in {"grouped", "execd"}}

\* C31: all stages of one pipeline end up in a single process group whose
\* id is the pid of the first stage, whichever of the child's own setpgid
\* and the parent's setpgid on that child runs first for each stage (the
\* loser's error, if any, is EACCES and is not reported), and the registered
\* job's pgid is that same id.
C31_OneProcessGroup ==
    /\ pc \in {"pg_fork", "pg_setpgid", "pg_add"} =>
          /\ loc.pids # <<>> => loc.pgid = loc.pids[1]
          /\ \A k \in PgSet : /\ procs[loc.pids[k]].st # "free"
                              /\ procs[loc.pids[k]].pgrp = loc.pids[1]
          /\ loc.err \in {"none", "EACCES"}
          /\ \A x \in 1 .. Len(out) : out[x].k # "setpgid"
    /\ \A j \in Slots : jobs[j].used = 1 =>
          /\ jobs[j].pgid = jobs[j].pids[1]
          /\ \A k \in 1 .. Len(jobs[j].pids) :
                procs[jobs[j].pids[k]].st # "free"
                => procs[jobs[j].pids[k]].pgrp = jobs[j].pgid

\* a two-stage pipeline whose second stage set its own group and reached
\* execve before the parent's setpgid (which failed with EACCES), after the
\* first stage had terminated: both are in the group of the first stage
C31_Witness ==
    /\ pc = "pg_add" /\ loc.n = 2
    /\ loc.err = "EACCES"
    /\ procs[loc.pids[1]].st = "zombie"
    /\ procs[loc.pids[2]].pgrp = loc.pids[1]

(* ---- redirections in the parser --------------------------------------- *)
\* longest input line of this part, and the characters of its lines
MaxRedirLine == 6
RedirChars == {"a", " ", "|", "<", ">", "2"}

\* fgets: one more character of a line with redirection operators arrives
TypeRedirChar(c) ==
    /\ ~parsed.done
    /\ Len(line) < MaxRedirLine
    /\ line' = Append(line, c)
    /\ UNCHANGED <<jobs, current_jid, previous_jid, next_seq, exit_code, sigblocked,
                   tty_pgrp, interactive, procs, pc, pipeline, loc, out, parsed, sh>>

\* the parser on lines with redirection operators: every command of a line
\* gets the same indeterminate background field
NextRedir ==
    \/ \E c \in RedirChars : TypeRedirChar(c)
    \/ \E b \in BOOLEAN : ParseLine([k \in 1 .. (MaxRedirLine \div 2 + 1) |-> b])
    \/ FreeCmd

SpecRedir == Init /\ [][NextRedir]_vars

\* the tokens of a line from position p on, up to and including the
\* TOK_END or TOK_ERROR that ends them
RECURSIVE Tokens(_, _)
Tokens(s, p) ==
    LET t == parser_next_token(s, p)
    IN  IF t.type \in {"TOK_END", "TOK_ERROR"} THEN <<t>>
        ELSE <<t>> \o Tokens(s, t.p)

\* the redirection operators: their slot (counted from 1) and whether they
\* append
RedirOps == {"TOK_REDIR_IN", "TOK_REDIR_OUT", "TOK_REDIR_OUT_APPEND",
             "TOK_REDIR_ERR", "TOK_REDIR_ERR_APPEND"}
SlotOf(type) ==
    IF type = "TOK_REDIR_IN" THEN 1
    ELSE IF type \in {"TOK_REDIR_OUT", "TOK_REDIR_OUT_APPEND"} THEN 2
    ELSE 3
Appends(type) == type \in {"TOK_REDIR_OUT_APPEND", "TOK_REDIR_ERR_APPEND"}

\* the stage a token belongs to: one more than the pipes before it
StageOf(ts, k) == 1 + Cardinality({m \in 1 .. (k - 1) : ts[m].type = "TOK_PIPE"})

\* the operators of stage n for a slot, as positions in the token list
OpsFor(ts, n, slot) ==
    {k \in 1 .. Len(ts) : /\ ts[k].type \in RedirOps
                          /\ SlotOf(ts[k].type) = slot
                          /\ StageOf(ts, k) = n}

\* an operator that is not immediately followed by a WORD token
DanglingOp(ts) ==
    \E k \in 1 .. Len(ts) : /\ ts[k].type \in RedirOps
                            /\ (k = Len(ts) \/ ts[k + 1].type # "TOK_WORD")

\* two redirections for the same slot within one stage
RepeatedSlot(ts) ==
    \E k, m \in 1 .. Len(ts) :
        /\ k < m
        /\ ts[k].type \in RedirOps /\ ts[m].type \in RedirOps
        /\ SlotOf(ts[k].type) = SlotOf(ts[m].type)
        /\ StageOf(ts, k) = StageOf(ts, m)

\* whether the append flag of a slot is set in cur->append
AppendSet(cmd, slot) ==
    IF slot = 2 THEN (cmd.append \div APPEND_STDOUT) % 2 = 1
    ELSE IF slot = 3 THEN (cmd.append \div APPEND_STDERR) % 2 = 1
    ELSE FALSE

\* C32: within one stage each redirection slot is set at most once and only
\* by an operator immediately followed by a WORD token (the slot then holds
\* that word); a second redirection for the same slot, or an operator
\* followed by another operator or by the end of the line, is a parse
\* error; the append flag of a slot is set only when the slot was set by
\* `>>` or `2>>`, and the flags have no other bit.
C32_RedirectSlots ==
    parsed.done =>
        LET ts == Tokens(line, 1)
        IN  /\ (DanglingOp(ts) \/ RepeatedSlot(ts)) => ~parsed.cmd.ok
            /\ parsed.cmd.ok =>
                  \A n \in 1 .. Len(parsed.cmd.cmds), slot \in 1 .. 3 :
                      LET cmd == parsed.cmd.cmds[n]
                          ops == OpsFor(ts, n, slot)
                      IN  /\ Cardinality(ops) <= 1
                          /\ ops = {} => /\ cmd.redirect[slot] = NoStr
                                         /\ ~AppendSet(cmd, slot)
                          /\ \A k \in ops :
                                /\ cmd.redirect[slot] = ts[k + 1].value
                                /\ AppendSet(cmd, slot) => Appends(ts[k].type)
                          /\ cmd.append \in {0, APPEND_STDOUT, APPEND_STDERR,
                                             APPEND_STDOUT + APPEND_STDERR}

\* `a 2>>a` is parsed: the stderr slot holds the word, APPEND_STDERR is the
\* only flag, the other slots are empty
C32_Witness ==
    /\ parsed.done /\ parsed.cmd.ok
    /\ Len(parsed.cmd.cmds) = 1
    /\ parsed.cmd.cmds[1].redirect = <<NoStr, NoStr, <<"a">> >>
    /\ parsed.cmd.cmds[1].append = APPEND_STDERR

\* execute_pipeline returns after pipe() or fork() failed in the fork loop
LaunchFailureReturn ==
    /\ pc = "fatal" /\ pc' = "exited"
    /\ out \in {<<ErrLine("pipe")>>, <<ErrLine("fork")>>}

\* C33: a pipe or fork failure in the parent while launching a pipeline
\* sets last_exit_code to 1: when execute_pipeline returns after such a
\* failure the exit code is 1, whatever the previous command left.
C33_LaunchFailureExitCode ==
    [][LaunchFailureReturn => exit_code' = 1]_vars

\* C34: whenever previous_jid is non-zero it differs from current_jid, so
\* the `+` and `-` marks never designate the same job, after any sequence
\* of launches, removals, fg and bg.
C34_PreviousDiffersFromCurrent ==
    previous_jid # 0 => previous_jid # current_jid

(* ---- jobs that stop and are never continued --------------------------- *)
\* Pipelines are launched, their processes stop one by one or terminate;
\* nothing continues a stopped process (no fg, no bg, no SIGCONT from
\* outside), so a job that has stopped stays stopped until it is killed.
NextStop ==
    \/ Execute
    \/ \E cmd \in ExtCmds : Launch(cmd)
    \/ ForkStage
    \/ JobAdd
    \/ WfTest
    \/ Finalize
    \/ NotifyEnd
    \/ \E p \in Pids : Reap(p)
    \/ \E p \in Pids, s \in ChildStatuses : ChildExit(p, s)
    \/ \E p \in Pids : ChildStop(p)

SpecStop == Init /\ [][NextStop]_vars

\* the jids a printed output reports as Stopped
StoppedLines(o) ==
    {o[x].jid : x \in {y \in 1 .. Len(o) : o[y].k = "notify" /\ o[y].st = JOB_STOPPED}}

\* C35: one stop of a job with several processes produces at most one
\* Stopped notification.  Where no job is ever continued, a notification
\* pass does not report a job as Stopped that the previous output of the
\* shell already reported as Stopped.
C35_OneStoppedNotification ==
    [][PassStep => StoppedLines(out) \cap StoppedLines(out') = {}]_vars

(* ---- the signal mask on every path of execute_pipeline ---------------- *)
\* The statement-level main line of SpecMask, with the pipelines of two and
\* more stages and the paths that leave execute_pipeline early: pipeline
\* too long, pipe() failure, fork() failure.  Children terminate or stop;
\* a stopped job is continued by fg and bg only.
LongCmds == {cmd \in ExtCmds : cmd.n >= 2}

\* exit(3): the one way a child terminates in this part
BalanceStatuses == {768}

NextBalance ==
    \/ Step
    \/ \E cmd \in MaskCmds : FgBgSpec(cmd)
    \/ \E cmd \in MaskCmds : BuiltinJobs(cmd)
    \/ \E cmd \in MaskCmds \cup LongCmds : Launch(cmd)
    \/ \E cmd \in LongCmds : TooLong(cmd)
    \/ ForkStage
    \/ PipeFail
    \/ ForkFail
    \/ JobAdd
    \/ FgKill
    \/ BgKill
    \/ WfTest
    \/ FatalWait
    \/ FatalReturn
    \/ \E p \in Pids : Reap(p)
    \/ \E p \in Pids, s \in BalanceStatuses : ChildExit(p, s)
    \/ \E p \in Pids : ChildStop(p)

SpecBalance == Init /\ [][NextBalance]_vars

\* the places where the main line calls sigchld_block (or blocks SIGCHLD
\* itself, in wait_foreground)
BlockSites == {"n_block", "f_block", "z_block", "e_block", "dispatch", "wf_enter"}

\* C36: the signal mask is balanced on every path: whenever
\* execute_pipeline has returned (builtin, fg, bg, jobs, background launch,
\* foreground completion or stop, pipeline too long, pipe or fork failure,
\* job table full) SIGCHLD is unblocked as it was on entry; and every
\* sigchld_block saves an unblocked mask, so that the matching
\* sigchld_restore unblocks.
C36_MaskBalanced ==
    /\ pc \in {"prompt", "exited"} => ~sigblocked
    /\ pc \in BlockSites => ~sigblocked

\* execute_pipeline has returned -1 after pipe() failed for a pipeline whose
\* first stage was forked with SIGCHLD blocked: SIGCHLD is unblocked again
C36_Witness ==
    /\ pc = "exited" /\ loc.ret = -1
    /\ out = <<ErrLine("pipe")>>
    /\ ~sigblocked

\* C37: current_jid is non-zero exactly when the table holds at least one
\* used job, and current_jid and previous_jid are each either 0 or the jid
\* of a job currently in the table.
C37_MarksNameUsedJobs ==
    /\ current_jid # 0 <=> jobs_any_used(jobs)
    /\ current_jid # 0 => job_by_jid(jobs, current_jid) # NULL
    /\ previous_jid # 0 => job_by_jid(jobs, previous_jid) # NULL

\* two jobs were in the table and the one marked current was removed: the
\* marks were recomputed, current names the job that is left
C37_Witness ==
    /\ Cardinality(UsedSlots(jobs)) = 1
    /\ next_seq = 3
    /\ \E i \in UsedSlots(jobs) : jobs[i].seq = 1 /\ current_jid = jobs[i].jid
    /\ previous_jid = 0

\* the step on which a foreground wait is finalised for a job that is Done
FinalizeDone ==
    /\ pc = "finalize" /\ pc' = "notify_end"
    /\ jobs[loc.job].used = 1 /\ jobs[loc.job].state = JOB_DONE

\* C38: every job that the reaper has brought to state Done has
\* last_status_valid set (all its counted processes have terminated, and
\* last_pid is one of them); hence the exit code of a completed pipeline is
\* computed from the recorded status of the last stage, which is the status
\* that stage terminated with, and never falls back to 0 for lack of one.
C38_DoneHasLastStatus ==
    [][/\ \A j \in Slots :
              (jobs'[j].used = 1 /\ jobs'[j].state = JOB_DONE)
              => jobs'[j].last_status_valid = 1
       /\ FinalizeDone =>
              /\ jobs[loc.job].last_status_valid = 1
              /\ exit_code' = status_to_exitcode(jobs[loc.job].last_status)
              /\ loc.caller = "exec" => jobs[loc.job].last_status = loc.lstat]_vars

\* a foreground pipeline of two stages is Done and about to be finalised:
\* its first stage was the last to terminate, and the status of the last
\* stage (exit 3) is on record
C38_Witness ==
    /\ pc = "finalize" /\ loc.caller = "exec"
    /\ jobs[loc.job].used = 1 /\ jobs[loc.job].state = JOB_DONE
    /\ jobs[loc.job].nprocs = 2
    /\ jobs[loc.job].last_status_valid = 1
    /\ jobs[loc.job].last_status = 768

\* C39: in every reachable state each used slot at array index i holds jid
\* i + 1 (the first free slot and the smallest free jid always coincide),
\* so `jobs`, which walks the slots in index order, lists the jobs in jid
\* order.
C39_SlotHoldsJidOfIndex ==
    /\ \A i \in Slots : jobs[i].used = 1 => jobs[i].jid = i + 1
    /\ \A x, y \in 1 .. Len(out) :
          (x < y /\ out[x].k = "jobs" /\ out[y].k = "jobs") => out[x].jid < out[y].jid

\* both slots are used and the job in slot 0 is the newer one: slot 0 was
\* freed and filled again while slot 1 stayed in use, and it got jid 1 again
C39_Witness ==
    /\ jobs[0].used = 1 /\ jobs[1].used = 1
    /\ jobs[0].seq > jobs[1].seq
    /\ jobs[0].jid = 1 /\ jobs[1].jid = 2

\* C40: the parent never calls close on a pipe descriptor it has already
\* closed: on every path through execute_pipeline, the job-table-full path
\* after the last iteration of a multi-stage pipeline included, no close()
\* hits a descriptor that is not open, and at the return every pipe end the
\* parent opened is closed.
C40_NoDoubleClose ==
    FdRun => /\ loc.ebadf = 0
             /\ pc \in {"prompt", "exited"} => loc.open = {}

====
